---- MODULE Spec2Model ----
(***************************************************************************)
(* ARCHIPEL P2P node runtime: session transport, handshake, messaging,     *)
(* store-and-forward relay queue and the chunked download engine.          *)
(*                                                                         *)
(* Modelling conventions                                                   *)
(*  - A JS string holding the JSON text of a value v is [json |-> v];      *)
(*    JSON.stringify wraps, JSON.parse unwraps.  A value is an object iff  *)
(*    it has no "json" field.                                              *)
(*  - HMAC-SHA256, SHA-256 and X25519 are collision-free symbolic terms.   *)
(*  - A TCP connection is a link <<client, server>> with one FIFO stream   *)
(*    per direction.                                                       *)
(***************************************************************************)
EXTENDS Integers, Sequences, FiniteSets, TLC

VARIABLES
    up,                   \* node -> process started
    peerTable,            \* node -> nodeId -> peer entry (PeerTable.peers)
    connections,          \* node -> nodeId -> link (TcpServer.connections)
    links,                \* link -> status and the two byte streams
    relayQueue,           \* node -> rows of relay_queue, in rowid order
    wot,                  \* node -> nodeId -> trust record (.wot.json)
    pendingHandshakes,    \* node -> nodeId -> ephemeral key id (Messenger._pendingHandshakes)
    pendingHandshakeResp, \* node -> last HANDSHAKE_RESP payload (TcpServer._pendingHandshakeResp)
    pollers,              \* node -> nodeId -> number of _doHandshake promises still polling
    delivered,            \* node -> msgInfo passed to onMessageReceived, in order
    clock,                \* Date.now()
    ephCounter,           \* number of ephemeral key pairs generated so far
    sendLog,              \* history: one record per Messenger.send call
    attempts,             \* history: number of _doHandshake calls
    lastFetch,            \* history: the last fetchRelayMessages call and the table before it
    fileChunks,           \* number of chunks of the file the provider shares
    dlFrom,               \* downloadFile: fromNodeId
    dlPc,                 \* downloadFile: idle, requesting, waiting, resolved or rejected
    nextReq,              \* downloadFile: loop variable i of the request loop
    chunkHandlers,        \* node -> a handler is registered in _chunkHandlers[file_id]
    chunkBuffers,         \* downloadFile: chunkBuffers
    downloaded,           \* downloadFile: downloaded
    timeoutAt,            \* downloadFile: due time of the pending timer, 0 when none
    dlResult,             \* what the promise of downloadFile settled with
    progress,             \* history: first arguments of the onProgress calls, in order
    dlHist,               \* history: times and counts of the download's events
    lastOp,               \* history: the last call of a library operation and its result
    fired                 \* history: node -> peer -> onPeerDiscovered calls since the entry appeared

nodeVars == <<up, peerTable, connections, links, relayQueue, wot,
              pendingHandshakes, pendingHandshakeResp, pollers, delivered,
              clock, ephCounter, sendLog, attempts>>

dlVars == <<fileChunks, dlFrom, dlPc, nextReq, chunkHandlers, chunkBuffers, downloaded,
            timeoutAt, dlResult, progress, dlHist>>

histVars == <<lastOp, fired>>

vars == <<nodeVars, lastFetch, dlVars, histVars>>

(***************************************************************************)
(* Bounds of the model                                                     *)
(***************************************************************************)
MaxAttempts == 2
MaxSends == 2
MaxTicks == 2
MaxQueue == 3
MaxChunks == 2
MaxDamaged == 1
MaxResent == 1
MaxPenalties == 2
MaxHellos == 2
TickHours == 24
DlTickMs == 60000

Nodes == {"A", "B", "C"}
Texts == {"secret"}

(***************************************************************************)
(* Values                                                                  *)
(***************************************************************************)
Null == "null"
NoOp == [op |-> "none"]

\* packet.js PacketType
HELLO == 1
PEER_LIST == 2
MSG == 3
CHUNK_REQ == 4
CHUNK_DATA == 5
MANIFEST == 6
ACK == 7
RELAY == 8

\* Keys are records of one shape so that any two can be compared.
NoKey == [kind |-> "none", dh1 |-> {}, dh2 |-> {}]
PUBLIC_HMAC_KEY == [kind |-> "ARCHIPEL_SECRET_KEY_2026_LBS_HACKATHON", dh1 |-> {}, dh2 |-> {}]

\* Long-term key pairs: the pair of node n has id StaticId(n); ephemeral pairs
\* are numbered after them.
StaticId(n) == CASE n = "A" -> 1 [] n = "B" -> 2 [] OTHER -> 3
EphId(k) == Cardinality(Nodes) + k
NoEph == 0

Identity(n) ==
    [nodeId  |-> n,
     signing |-> [publicKey |-> [pub |-> 100 + StaticId(n)], privateKey |-> [priv |-> 100 + StaticId(n)]],
     dh      |-> [publicKey |-> [pub |-> StaticId(n)], privateKey |-> [priv |-> StaticId(n)]]]

IsObject(v) == "json" \notin DOMAIN v
JsonStringify(v) == [json |-> v]
JsonParse(s) == s.json
HasField(v, f) == IsObject(v) /\ f \in DOMAIN v

(***************************************************************************)
(* Packet codec (packet.js)                                                *)
(***************************************************************************)
hmac(body, key) == [key |-> key, body |-> body]

Body(buf) == <<buf.type, buf.nodeId, buf.payload>>

buildPacket(type, nodeId, payload, hmacKey) ==
    [type |-> type, nodeId |-> nodeId, payload |-> payload,
     mac |-> hmac(<<type, nodeId, payload>>, hmacKey)]

NullPacket == [ok |-> FALSE]

parsePacket(buf, hmacKey) ==
    LET expectedMac == hmac(Body(buf), hmacKey)
        packet == [ok |-> TRUE, type |-> buf.type, nodeId |-> buf.nodeId, payload |-> buf.payload]
    IN  IF buf.mac # expectedMac
        THEN IF buf.type = HELLO THEN packet ELSE NullPacket
        ELSE packet

parseJsonPayload(packet) == JsonParse(packet.payload)

buildHelloPacket(identity, now) ==
    buildPacket(HELLO, identity.nodeId,
                JsonStringify([nodeId |-> identity.nodeId,
                               dhPublicKey |-> identity.dh.publicKey,
                               signingPublicKey |-> identity.signing.publicKey,
                               timestamp |-> now]),
                PUBLIC_HMAC_KEY)

(***************************************************************************)
(* Packet codec at the level of bytes (packet.js).  The operators above    *)
(* are the same functions seen at the level of fields, for frames that     *)
(* nodes build.  Here a string is the sequence of its character codes and  *)
(* a Buffer the sequence of its bytes.  A byte is a record: v is its value *)
(* and mac names no digest for a byte of data.  HMAC-SHA256 is symbolic:   *)
(* byte i of a digest has at = i, its first byte names the 64-byte key     *)
(* block and the data, and v is the mask of the bits flipped in it since.  *)
(***************************************************************************)
HMAC_SIZE == 32

\* Buffer.from(bytes)
BufferFrom(bytes) ==
    [i \in 1..Len(bytes) |-> [v |-> bytes[i], mac |-> [key |-> <<>>, data |-> <<>>, at |-> 0]]]

MAGIC == BufferFrom(<<65, 82, 67, 72>>)

\* buf.slice(start, end)
Slice(buf, start, end) == SubSeq(buf, start + 1, IF end < Len(buf) THEN end ELSE Len(buf))

\* Buffer.from(s, 'hex') for a string of hex digits of either case
FromHex(s) ==
    LET HexVal(c) == IF c <= 57 THEN c - 48 ELSE IF c <= 70 THEN c - 55 ELSE c - 87
    IN  BufferFrom([i \in 1..(Len(s) \div 2) |->
                       16 * HexVal(s[2 * i - 1]) + HexVal(s[2 * i])])

\* buf.toString('hex'): lower-case digits
ToHex(buf) ==
    LET HexChar(v) == IF v < 10 THEN v + 48 ELSE v + 87
    IN  [i \in 1..(2 * Len(buf)) |->
            IF i % 2 = 1 THEN HexChar(buf[(i + 1) \div 2].v \div 16)
            ELSE HexChar(buf[i \div 2].v % 16)]

\* writeUInt32BE and readUInt32BE
WriteUInt32BE(v) ==
    BufferFrom(<<(v \div 16777216) % 256, (v \div 65536) % 256, (v \div 256) % 256, v % 256>>)
\* A length of 2^30 or more is read as 2^30: the model's integers have 32 bits,
\* and a length is only ever compared with the length of a buffer.
ReadUInt32BE(buf, at) ==
    IF buf[at + 1].v >= 64 THEN 1073741824
    ELSE 16777216 * buf[at + 1].v + 65536 * buf[at + 2].v + 256 * buf[at + 3].v
         + buf[at + 4].v

\* hmac(data, keyHex): a key string of 64 characters is hex-decoded, any other
\* is taken as its bytes; HMAC pads the key with zeros to its block of 64 bytes.
hmacBytes(data, keyHex) ==
    LET key == IF Len(keyHex) = 64 THEN FromHex(keyHex) ELSE BufferFrom(keyHex)
        block == [i \in 1..64 |-> IF i <= Len(key) THEN key[i].v ELSE 0]
    IN  [i \in 1..HMAC_SIZE |->
            [v |-> 0,
             mac |-> IF i = 1 THEN [key |-> block, data |-> data, at |-> 1]
                     ELSE [key |-> <<>>, data |-> <<>>, at |-> i]]]

\* A variant that writes the payload length with the low byte first.
buildPacketLE(type, nodeIdHex, payload, hmacKeyHex) ==
    LET nodeId == FromHex(Slice(nodeIdHex, 0, 64))
        len == WriteUInt32BE(Len(payload))
        body == MAGIC \o BufferFrom(<<type % 256>>) \o nodeId
                \o <<len[4], len[3], len[2], len[1]>> \o payload
    IN  body \o hmacBytes(body, hmacKeyHex)

buildPacketBytes(type, nodeIdHex, payload, hmacKeyHex) ==
    LET nodeId == FromHex(Slice(nodeIdHex, 0, 64))
        payloadLen == WriteUInt32BE(Len(payload))
        body == MAGIC \o BufferFrom(<<type % 256>>) \o nodeId \o payloadLen \o payload
        mac == hmacBytes(body, hmacKeyHex)
    IN  body \o mac

\* A variant that returns the packet whatever the MAC.
parsePacketUnverified(buf, hmacKeyHex) ==
    IF Len(buf) < 4 + 1 + 32 + 4 + HMAC_SIZE THEN NullPacket
    ELSE IF Slice(buf, 0, 4) # MAGIC THEN NullPacket
    ELSE LET payloadEnd == 41 + ReadUInt32BE(buf, 37)
         IN  IF Len(buf) < payloadEnd + HMAC_SIZE THEN NullPacket
             ELSE [ok |-> TRUE, type |-> buf[5].v, nodeId |-> ToHex(Slice(buf, 5, 37)),
                   payload |-> Slice(buf, 41, payloadEnd)]

\* One bit of byte pos (counted from 1) of buf is inverted.
FlipBit(buf, pos, bit) ==
    [buf EXCEPT ![pos].v = IF (@ \div (2 ^ bit)) % 2 = 1 THEN @ - 2 ^ bit ELSE @ + 2 ^ bit]

parsePacketBytes(buf, hmacKeyHex) ==
    IF Len(buf) < 4 + 1 + 32 + 4 + HMAC_SIZE THEN NullPacket
    ELSE IF Slice(buf, 0, 4) # MAGIC THEN NullPacket
    ELSE LET type == buf[5].v
             nodeId == ToHex(Slice(buf, 5, 37))
             payloadLen == ReadUInt32BE(buf, 37)
             payloadEnd == 41 + payloadLen
         IN  IF Len(buf) < payloadEnd + HMAC_SIZE THEN NullPacket
             ELSE LET payload == Slice(buf, 41, payloadEnd)
                      receivedMac == Slice(buf, payloadEnd, payloadEnd + HMAC_SIZE)
                      body == Slice(buf, 0, payloadEnd)
                      expectedMac == hmacBytes(body, hmacKeyHex)
                      packet == [ok |-> TRUE, type |-> type, nodeId |-> nodeId,
                                 payload |-> payload]
                  IN  IF receivedMac # expectedMac
                      THEN IF type = HELLO THEN packet ELSE NullPacket
                      ELSE packet

(***************************************************************************)
(* Handshake primitives (handshake.js)                                     *)
(***************************************************************************)
\* X25519: the shared secret depends on the two key pairs only.
dh(priv, pub) == {priv.priv, pub.pub}

deriveKey(dh1, dh2) == [kind |-> "session", dh1 |-> dh1, dh2 |-> dh2]

EphPriv(e) == [priv |-> e]
EphPub(e) == [pub |-> e]

initiateHandshake(identity, e, now) ==
    [message |-> buildPacket(MSG, identity.nodeId,
                     JsonStringify([type |-> "HANDSHAKE_INIT",
                                    nodeId |-> identity.nodeId,
                                    signingPub |-> identity.signing.publicKey,
                                    dhPub |-> identity.dh.publicKey,
                                    ephemeralDhPub |-> EphPub(e),
                                    timestamp |-> now]),
                     PUBLIC_HMAC_KEY),
     ephemeralPriv |-> EphPriv(e),
     ephemeralPub |-> EphPub(e)]

respondHandshake(initData, identity, e, now) ==
    LET dh1 == dh(EphPriv(e), initData.ephemeralDhPub)
        dh2 == dh(identity.dh.privateKey, initData.dhPub)
    IN  [responsePacket |-> buildPacket(MSG, identity.nodeId,
                     JsonStringify([type |-> "HANDSHAKE_RESP",
                                    nodeId |-> identity.nodeId,
                                    signingPub |-> identity.signing.publicKey,
                                    dhPub |-> identity.dh.publicKey,
                                    ephemeralDhPub |-> EphPub(e),
                                    timestamp |-> now]),
                     PUBLIC_HMAC_KEY),
         sessionKey |-> deriveKey(dh1, dh2)]

finalizeHandshake(respData, ephemeralPriv, identity) ==
    LET dh1 == dh(ephemeralPriv, respData.ephemeralDhPub)
        dh2 == dh(identity.dh.privateKey, respData.dhPub)
    IN  deriveKey(dh1, dh2)

(***************************************************************************)
(* AEAD and signatures (encryption.js).  A string is the degenerate        *)
(* ciphertext under no key, so that cleartext and ciphertext compare.      *)
(***************************************************************************)
Str(t) == [plain |-> t, key |-> NoKey, nonce |-> Null]
NoText == Str(Null)

decryptMessage(ciphertextHex, nonceHex, sessionKeyHex) ==
    IF ciphertextHex.key = sessionKeyHex /\ ciphertextHex.nonce = nonceHex /\ nonceHex # Null
    THEN Str(ciphertextHex.plain)
    ELSE NoText

signData(data, privateKey) == [signed |-> data, by |-> privateKey.priv]

(***************************************************************************)
(* Peer table (peer-table.js)                                              *)
(***************************************************************************)
PEER_TIMEOUT_MS == 90000
InitialReputation == 100
DefaultPenalty == 10

NoPeer == [present |-> FALSE, signingPublicKey |-> [pub |-> 0], sessionKey |-> NoKey,
           lastSeen |-> 0, reputation |-> 0]

ptGet(pt, nodeId) == pt[nodeId]

\* A variant that resets the reputation and the session key of an entry.
ptUpsertReset(pt, peerInfo, now) ==
    [pt EXCEPT ![peerInfo.nodeId] =
        [present |-> TRUE, signingPublicKey |-> peerInfo.signingPublicKey,
         sessionKey |-> NoKey, lastSeen |-> now, reputation |-> InitialReputation]]

\* upsert(peerInfo) at time now.  The announced address, DH key, signing key
\* and file list replace the recorded ones as a whole; of these the model's
\* entry keeps the signing key.
ptUpsert(pt, peerInfo, now) ==
    LET nodeId == peerInfo.nodeId
    IN  [pt EXCEPT ![nodeId] =
            [present |-> TRUE,
             signingPublicKey |-> peerInfo.signingPublicKey,
             sessionKey |-> IF pt[nodeId].present THEN pt[nodeId].sessionKey ELSE NoKey,
             lastSeen |-> now,
             reputation |-> IF pt[nodeId].present THEN pt[nodeId].reputation
                            ELSE InitialReputation]]

\* A variant that also evicts a peer seen exactly PEER_TIMEOUT_MS ago.
DeadPeersEager(pt, now) ==
    {id \in DOMAIN pt : pt[id].present /\ now - pt[id].lastSeen >= PEER_TIMEOUT_MS}

\* The ids pruneDeadPeers deletes at time now, and the table it leaves.
DeadPeers(pt, now) == {id \in DOMAIN pt : pt[id].present /\ now - pt[id].lastSeen > PEER_TIMEOUT_MS}

pruneDeadPeers(pt, now) ==
    [peers |-> [id \in DOMAIN pt |-> IF id \in DeadPeers(pt, now) THEN NoPeer ELSE pt[id]],
     removed |-> DeadPeers(pt, now)]

\* A variant that returns the entries without pruning first.
getActivePeersUnpruned(pt, now) ==
    [peers |-> pt, active |-> [id \in {i \in DOMAIN pt : pt[i].present} |-> pt[id]]]

\* getActivePeers prunes, then returns every entry that is left.
getActivePeers(pt, now) ==
    LET pruned == pruneDeadPeers(pt, now).peers
    IN  [peers |-> pruned,
         active |-> [id \in {i \in DOMAIN pruned : pruned[i].present} |-> pruned[id]]]

ptSetSessionKey(pt, nodeId, sessionKey) ==
    IF pt[nodeId].present THEN [pt EXCEPT ![nodeId].sessionKey = sessionKey] ELSE pt

penalize(pt, nodeId, amount) ==
    IF pt[nodeId].present
    THEN [pt EXCEPT ![nodeId].reputation =
              IF pt[nodeId].reputation - amount > 0 THEN pt[nodeId].reputation - amount ELSE 0]
    ELSE pt

(***************************************************************************)
(* Trust store (wot.js)                                                    *)
(***************************************************************************)
NoTrust == [present |-> FALSE, signingPub |-> [pub |-> 0], dhPub |-> [pub |-> 0], trusted |-> FALSE]

\* A variant that compares the signing key only.
checkTrustSigningOnly(w, nodeId, signingPub, dhPub) ==
    LET entry == w[nodeId]
    IN  IF ~entry.present
        THEN [wot |-> [w EXCEPT ![nodeId] = [present |-> TRUE, signingPub |-> signingPub,
                                             dhPub |-> dhPub, trusted |-> TRUE]],
              status |-> "new", trusted |-> TRUE]
        ELSE IF entry.signingPub # signingPub
        THEN [wot |-> [w EXCEPT ![nodeId].trusted = FALSE],
              status |-> "mismatch", trusted |-> FALSE]
        ELSE [wot |-> w, status |-> "known", trusted |-> entry.trusted]

\* A variant that pins the keys it is shown on a mismatch.
checkTrustRepin(w, nodeId, signingPub, dhPub) ==
    LET entry == w[nodeId]
    IN  IF ~entry.present
        THEN [wot |-> [w EXCEPT ![nodeId] = [present |-> TRUE, signingPub |-> signingPub,
                                             dhPub |-> dhPub, trusted |-> TRUE]],
              status |-> "new", trusted |-> TRUE]
        ELSE IF entry.signingPub # signingPub \/ entry.dhPub # dhPub
        THEN [wot |-> [w EXCEPT ![nodeId] = [present |-> TRUE, signingPub |-> signingPub,
                                             dhPub |-> dhPub, trusted |-> FALSE]],
              status |-> "mismatch", trusted |-> FALSE]
        ELSE [wot |-> w, status |-> "known", trusted |-> entry.trusted]

checkTrust(w, nodeId, signingPub, dhPub) ==
    LET entry == w[nodeId]
    IN  IF ~entry.present
        THEN [wot |-> [w EXCEPT ![nodeId] = [present |-> TRUE, signingPub |-> signingPub,
                                             dhPub |-> dhPub, trusted |-> TRUE]],
              status |-> "new", trusted |-> TRUE]
        ELSE IF entry.signingPub # signingPub \/ entry.dhPub # dhPub
        THEN [wot |-> [w EXCEPT ![nodeId].trusted = FALSE],
              status |-> "mismatch", trusted |-> FALSE]
        ELSE [wot |-> w, status |-> "known", trusted |-> entry.trusted]

\* trust(nodeId): the operator's manual restoration.
trust(w, nodeId) ==
    IF w[nodeId].present
    THEN [wot |-> [w EXCEPT ![nodeId].trusted = TRUE], ok |-> TRUE]
    ELSE [wot |-> w, ok |-> FALSE]

(***************************************************************************)
(* Relay queue (db.js).  Rows are kept in rowid order.                     *)
(***************************************************************************)
ttlHours == 24
MsPerHour == 3600 * 1000

\* As queueRelayMessage, but the row is not inserted.
queueRelayMessageNoInsert(q, targetId, senderId, packetData, now) == q

queueRelayMessage(q, targetId, senderId, packetData, now) ==
    Append(q, [target_id |-> targetId, sender_id |-> senderId,
               packet_data |-> JsonStringify(packetData),
               expires_at |-> now + ttlHours * MsPerHour])

\* As fetchRelayMessages, but with the expiry test made non-strict.
fetchRelayMessagesEager(q, targetId, now) ==
    LET purged == SelectSeq(q, LAMBDA r : ~(r.expires_at <= now))
        res == SelectSeq(purged, LAMBDA r : r.target_id = targetId)
    IN  IF res = <<>>
        THEN [queue |-> purged, messages |-> <<>>]
        ELSE [queue |-> SelectSeq(purged, LAMBDA r : r.target_id # targetId),
              messages |-> [i \in 1..Len(res) |->
                               [res[i] EXCEPT !.packet_data = JsonParse(@)]]]

fetchRelayMessages(q, targetId, now) ==
    LET purged == SelectSeq(q, LAMBDA r : ~(r.expires_at < now))
        res == SelectSeq(purged, LAMBDA r : r.target_id = targetId)
    IN  IF res = <<>>
        THEN [queue |-> purged, messages |-> <<>>]
        ELSE [queue |-> SelectSeq(purged, LAMBDA r : r.target_id # targetId),
              messages |-> [i \in 1..Len(res) |->
                               [res[i] EXCEPT !.packet_data = JsonParse(@)]]]

(***************************************************************************)
(* Session transport (tcp-server.js)                                       *)
(***************************************************************************)
LinkIds == {l \in Nodes \X Nodes : l[1] # l[2]}
NoLink == <<"-", "-">>
NoStream == [status |-> "none", toS |-> <<>>, toC |-> <<>>]

\* The frames travelling towards endpoint n of link l.
Inbound(lk, l, n) == IF n = l[2] THEN lk[l].toS ELSE lk[l].toC

\* socket.write(frames) at endpoint n; bytes written to a destroyed socket are lost.
Write(lk, l, n, frames) ==
    IF lk[l].status # "open" THEN lk
    ELSE IF n = l[1] THEN [lk EXCEPT ![l].toS = @ \o frames]
    ELSE [lk EXCEPT ![l].toC = @ \o frames]

Consume(lk, l, n) ==
    IF n = l[2] THEN [lk EXCEPT ![l].toS = Tail(@)] ELSE [lk EXCEPT ![l].toC = Tail(@)]

\* socket.on('close'): the first nodeId registered for the socket is removed.
CloseCleanup(conn, l) ==
    IF \E id \in Nodes : conn[id] = l
    THEN [conn EXCEPT ![CHOOSE id \in Nodes : conn[id] = l] = NoLink]
    ELSE conn

_getHmacKey(n, buf) ==
    LET peer == ptGet(peerTable[n], buf.nodeId)
    IN  IF peer.present /\ peer.sessionKey # NoKey THEN peer.sessionKey ELSE PUBLIC_HMAC_KEY

\* The RELAY frames _deliverRelayMessages writes for the fetched rows.
RelayFrames(n, messages) ==
    [i \in 1..Len(messages) |->
        buildPacket(RELAY, n, JsonStringify(messages[i].packet_data), PUBLIC_HMAC_KEY)]

\* _deliverRelayMessages(nodeId, socket) at node n: the queue after the fetch,
\* and the link streams after the writes.
_deliverRelayMessages(n, nodeId, l, lk) ==
    LET f == fetchRelayMessages(relayQueue[n], nodeId, clock)
    IN  [queue |-> f.queue, links |-> Write(lk, l, n, RelayFrames(n, f.messages))]

\* sendTo(nodeId, packetBuf) at node n.  conn and wr are the outcomes the
\* network gives to the connection attempt and to the write.  frames is <<>>
\* for the empty buffer the CLI pokes a discovered peer with.
Usable(n, nodeId) ==
    connections[n][nodeId] # NoLink /\ links[connections[n][nodeId]].status = "open"

\* A failed write: the socket is broken, what it carried is lost and both
\* endpoints run their close handler.
Closed == [status |-> "closed", toS |-> <<>>, toC |-> <<>>]

CloseBoth(cn, l) ==
    [m \in Nodes |-> IF m \in {l[1], l[2]} THEN CloseCleanup(cn[m], l) ELSE cn[m]]

\* As sendTo, but a connection it opens is not offered the relay queue.
sendToNoDrain(n, nodeId, frames, conn, wr) ==
    LET same == [ok |-> FALSE, links |-> links, connections |-> connections,
                 queue |-> relayQueue[n], connected |-> FALSE]
        sock == connections[n][nodeId]
    IN  IF Usable(n, nodeId)
        THEN IF wr = "ok"
             THEN [same EXCEPT !.ok = TRUE, !.links = Write(links, sock, n, frames)]
             ELSE [same EXCEPT !.links = [links EXCEPT ![sock] = Closed],
                               !.connections = CloseBoth(connections, sock)]
        ELSE IF ~ptGet(peerTable[n], nodeId).present
        THEN same
        ELSE IF conn = "ok" /\ up[nodeId]
        THEN LET l == <<n, nodeId>>
                 opened == [links EXCEPT ![l] = [status |-> "open", toS |-> <<>>, toC |-> <<>>]]
                 registered == [connections EXCEPT ![n][nodeId] = l]
             IN  IF wr = "ok"
                 THEN [ok |-> TRUE, links |-> Write(opened, l, n, frames),
                       connections |-> registered, queue |-> relayQueue[n], connected |-> TRUE]
                 ELSE [ok |-> FALSE, links |-> [links EXCEPT ![l] = Closed],
                       connections |-> CloseBoth(registered, l), queue |-> relayQueue[n],
                       connected |-> TRUE]
        ELSE same

sendTo(n, nodeId, frames, conn, wr) ==
    LET same == [ok |-> FALSE, links |-> links, connections |-> connections,
                 queue |-> relayQueue[n], connected |-> FALSE]
        sock == connections[n][nodeId]
    IN  IF Usable(n, nodeId)
        THEN IF wr = "ok"
             THEN [same EXCEPT !.ok = TRUE, !.links = Write(links, sock, n, frames)]
             ELSE [same EXCEPT !.links = [links EXCEPT ![sock] = Closed],
                               !.connections = CloseBoth(connections, sock)]
        ELSE IF ~ptGet(peerTable[n], nodeId).present
        THEN same
        ELSE IF conn = "ok" /\ up[nodeId]
        THEN LET l == <<n, nodeId>>
                 opened == [links EXCEPT ![l] = [status |-> "open", toS |-> <<>>, toC |-> <<>>]]
                 registered == [connections EXCEPT ![n][nodeId] = l]
                 d == _deliverRelayMessages(n, nodeId, l, opened)
             IN  IF wr = "ok"
                 THEN [ok |-> TRUE, links |-> Write(d.links, l, n, frames),
                       connections |-> registered, queue |-> d.queue, connected |-> TRUE]
                 ELSE [ok |-> FALSE, links |-> [links EXCEPT ![l] = Closed],
                       connections |-> CloseBoth(registered, l), queue |-> d.queue,
                       connected |-> TRUE]
        ELSE same

\* A second outbound socket to the same peer is opened only once the previous
\* one has gone (its 5 s timer destroys it).
CanSendTo(n, nodeId) == Usable(n, nodeId) \/ links[<<n, nodeId>>].status # "open"

(***************************************************************************)
(* Messenger (messenger.js)                                                *)
(***************************************************************************)
ChatPayload(n, message, now) ==
    [ciphertext |-> Str(message), nonce |-> Null, timestamp |-> now,
     signature |-> signData(message, Identity(n).signing.privateKey),
     nodeId |-> n]

RelayPayload(n, nodeId, message, now) ==
    JsonStringify([target |-> nodeId, sender |-> n, content |-> Str(message), timestamp |-> now])

\* Messenger.send(nodeId, message): the direct attempt, and sendRelay when it throws.
Send(n, nodeId, message, conn, wr) ==
    /\ up[n]
    /\ Len(sendLog) < MaxSends
    /\ CanSendTo(n, nodeId)
    /\ LET payload == ChatPayload(n, message, clock)
           finalPacket == buildPacket(MSG, n, JsonStringify(payload), PUBLIC_HMAC_KEY)
           r == sendTo(n, nodeId, <<finalPacket>>, conn, wr)
           queued == IF r.ok THEN r.queue
                     ELSE queueRelayMessage(r.queue, nodeId, n,
                                            RelayPayload(n, nodeId, message, clock), clock)
       IN  /\ links' = r.links
           /\ connections' = r.connections
           /\ relayQueue' = [relayQueue EXCEPT ![n] = queued]
           /\ sendLog' = Append(sendLog,
                  [from |-> n, to |-> nodeId, message |-> message, timestamp |-> clock,
                   hadKey |-> peerTable[n][nodeId].sessionKey # NoKey,
                   bothKeyed |-> /\ peerTable[n][nodeId].sessionKey # NoKey
                                 /\ peerTable[nodeId][n].sessionKey = peerTable[n][nodeId].sessionKey,
                   payload |-> payload,
                   targetUp |-> up[nodeId],
                   reachable |-> {m \in Nodes \ {n, nodeId} : up[m] /\ peerTable[n][m].present},
                   failed |-> ~r.ok,
                   onWire |-> \E l \in LinkIds :
                                  /\ r.links[l].status = "open"
                                  /\ nodeId \in {l[1], l[2]}
                                  /\ \E k \in 1..Len(Inbound(r.links, l, nodeId)) :
                                         Inbound(r.links, l, nodeId)[k] = finalPacket,
                   enqueued |-> SubSeq(queued, Len(r.queue) + 1, Len(queued)),
                   result |-> [encrypted |-> FALSE, relayed |-> ~r.ok]])
    /\ clock' = clock + 1
    /\ UNCHANGED <<histVars, up, peerTable, wot, pendingHandshakes, pendingHandshakeResp, pollers,
                   delivered, ephCounter, attempts,
                   lastFetch, dlVars>>

\* Messenger._doHandshake(nodeId) up to the start of the polling promise.
DoHandshake(n, nodeId, conn, wr) ==
    /\ up[n]
    /\ attempts < MaxAttempts
    /\ CanSendTo(n, nodeId)
    /\ LET hs == initiateHandshake(Identity(n), EphId(ephCounter + 1), clock)
           r == sendTo(n, nodeId, <<hs.message>>, conn, wr)
       IN  /\ pendingHandshakes' = [pendingHandshakes EXCEPT ![n][nodeId] = hs.ephemeralPriv.priv]
           /\ links' = r.links
           /\ connections' = r.connections
           /\ relayQueue' = [relayQueue EXCEPT ![n] = r.queue]
           /\ pollers' = IF r.ok THEN [pollers EXCEPT ![n][nodeId] = @ + 1] ELSE pollers
    /\ ephCounter' = ephCounter + 1
    /\ attempts' = attempts + 1
    /\ UNCHANGED <<histVars, up, peerTable, wot, pendingHandshakeResp, delivered, clock, sendLog,
                   lastFetch, dlVars>>

NoResp == [nodeId |-> Null]

\* One tick of the 100 ms polling interval that finds the response of nodeId.
PollHandshake(n, nodeId) ==
    /\ pollers[n][nodeId] > 0
    /\ pendingHandshakeResp[n].nodeId = nodeId
    /\ pendingHandshakes[n][nodeId] # NoEph
    /\ LET resp == pendingHandshakeResp[n]
           pending == [ephemeralPriv |-> EphPriv(pendingHandshakes[n][nodeId])]
           sessionKey == finalizeHandshake(resp, pending.ephemeralPriv, Identity(n))
       IN  peerTable' = [peerTable EXCEPT ![n] = ptSetSessionKey(@, nodeId, sessionKey)]
    /\ pendingHandshakeResp' = [pendingHandshakeResp EXCEPT ![n] = NoResp]
    /\ pendingHandshakes' = [pendingHandshakes EXCEPT ![n][nodeId] = NoEph]
    /\ pollers' = [pollers EXCEPT ![n][nodeId] = @ - 1]
    /\ UNCHANGED <<histVars, up, connections, links, relayQueue, wot, delivered, clock, ephCounter,
                   sendLog, attempts,
                   lastFetch, dlVars>>

\* The 5 s timer of a polling promise: the interval is cleared, null is returned.
HandshakeTimeout(n, nodeId) ==
    /\ pollers[n][nodeId] > 0
    /\ pollers' = [pollers EXCEPT ![n][nodeId] = @ - 1]
    /\ UNCHANGED <<histVars, up, peerTable, connections, links, relayQueue, wot, pendingHandshakes,
                   pendingHandshakeResp, delivered, clock, ephCounter, sendLog, attempts,
                   lastFetch, dlVars>>

(***************************************************************************)
(* Frame dispatch (tcp-server.js, _handleConnection and _handlePacket)     *)
(***************************************************************************)
CanRecv(n, l) ==
    /\ up[n]
    /\ n \in {l[1], l[2]}
    /\ links[l].status = "open"
    /\ Inbound(links, l, n) # <<>>

Arrived(n, l) == Head(Inbound(links, l, n))
Parsed(n, l) == parsePacket(Arrived(n, l), _getHmacKey(n, Arrived(n, l)))
Data(n, l) == parseJsonPayload(Parsed(n, l))
IsHandshake(data, t) == HasField(data, "type") /\ data.type = t

ChatText(text) == [prefix |-> "", body |-> text]
RelayText(content) == [prefix |-> "[Relay] ", body |-> content]

\* As RecvRejected, but the socket is destroyed with the frame.
RecvRejectedClosing(n, l) ==
    /\ CanRecv(n, l)
    /\ ~Parsed(n, l).ok
    /\ links' = [links EXCEPT ![l] = Closed]
    /\ UNCHANGED <<histVars, up, peerTable, connections, relayQueue, wot, pendingHandshakes,
                   pendingHandshakeResp, pollers, delivered, clock, ephCounter, sendLog,
                   attempts,
                   lastFetch, dlVars>>

\* parsePacket returned null: the frame is skipped.
RecvRejected(n, l) ==
    /\ CanRecv(n, l)
    /\ ~Parsed(n, l).ok
    /\ links' = Consume(links, l, n)
    /\ UNCHANGED <<histVars, up, peerTable, connections, relayQueue, wot, pendingHandshakes,
                   pendingHandshakeResp, pollers, delivered, clock, ephCounter, sendLog,
                   attempts,
                   lastFetch, dlVars>>

RecvHandshakeInit(n, l) ==
    /\ CanRecv(n, l)
    /\ Parsed(n, l).ok
    /\ Parsed(n, l).type = MSG
    /\ IsHandshake(Data(n, l), "HANDSHAKE_INIT")
    /\ LET packet == Parsed(n, l)
           data == Data(n, l)
           trusting == checkTrust(wot[n], data.nodeId, data.signingPub, data.dhPub)
           r == respondHandshake(data, Identity(n), EphId(ephCounter + 1), clock)
           written == Write(Consume(links, l, n), l, n, <<r.responsePacket>>)
           d == _deliverRelayMessages(n, data.nodeId, l, written)
       IN  /\ wot' = [wot EXCEPT ![n] = trusting.wot]
           /\ IF ~trusting.trusted
              THEN /\ connections' = [connections EXCEPT ![n][packet.nodeId] = l]
                   /\ links' = Consume(links, l, n)
                   /\ UNCHANGED <<peerTable, relayQueue, ephCounter>>
              ELSE /\ peerTable' = [peerTable EXCEPT ![n] = ptSetSessionKey(@, data.nodeId, r.sessionKey)]
                   /\ connections' = [connections EXCEPT ![n][packet.nodeId] = l,
                                                         ![n][data.nodeId] = l]
                   /\ links' = d.links
                   /\ relayQueue' = [relayQueue EXCEPT ![n] = d.queue]
                   /\ ephCounter' = ephCounter + 1
    /\ UNCHANGED <<histVars, up, pendingHandshakes, pendingHandshakeResp, pollers, delivered, clock,
                   sendLog, attempts,
                   lastFetch, dlVars>>

RecvHandshakeResp(n, l) ==
    /\ CanRecv(n, l)
    /\ Parsed(n, l).ok
    /\ Parsed(n, l).type = MSG
    /\ IsHandshake(Data(n, l), "HANDSHAKE_RESP")
    /\ LET packet == Parsed(n, l)
           data == Data(n, l)
           trusting == checkTrust(wot[n], data.nodeId, data.signingPub, data.dhPub)
           d == _deliverRelayMessages(n, data.nodeId, l, Consume(links, l, n))
       IN  /\ wot' = [wot EXCEPT ![n] = trusting.wot]
           /\ connections' = [connections EXCEPT ![n][packet.nodeId] = l,
                                                 ![n][data.nodeId] = l]
           /\ pendingHandshakeResp' = [pendingHandshakeResp EXCEPT ![n] =
                  [nodeId |-> data.nodeId, dhPub |-> data.dhPub,
                   ephemeralDhPub |-> data.ephemeralDhPub]]
           /\ links' = d.links
           /\ relayQueue' = [relayQueue EXCEPT ![n] = d.queue]
    /\ UNCHANGED <<histVars, up, peerTable, pendingHandshakes, pollers, delivered, clock, ephCounter,
                   sendLog, attempts,
                   lastFetch, dlVars>>

RecvChat(n, l) ==
    /\ CanRecv(n, l)
    /\ Parsed(n, l).ok
    /\ Parsed(n, l).type = MSG
    /\ IsObject(Data(n, l))
    /\ ~IsHandshake(Data(n, l), "HANDSHAKE_INIT")
    /\ ~IsHandshake(Data(n, l), "HANDSHAKE_RESP")
    /\ LET packet == Parsed(n, l)
           data == Data(n, l)
           peer == ptGet(peerTable[n], packet.nodeId)
           hasSession == peer.present /\ peer.sessionKey # NoKey
           decrypted == decryptMessage(data.ciphertext, data.nonce, peer.sessionKey)
           text == IF hasSession /\ data.nonce # Null /\ decrypted # NoText
                   THEN decrypted ELSE data.ciphertext
       IN  /\ connections' = [connections EXCEPT ![n][packet.nodeId] = l]
           /\ delivered' = [delivered EXCEPT ![n] = Append(@,
                  [from |-> packet.nodeId, message |-> ChatText(text),
                   timestamp |-> data.timestamp, encrypted |-> hasSession])]
    /\ links' = Consume(links, l, n)
    /\ UNCHANGED <<histVars, up, peerTable, relayQueue, wot, pendingHandshakes, pendingHandshakeResp,
                   pollers, clock, ephCounter, sendLog, attempts,
                   lastFetch, dlVars>>

\* A chat frame whose onMessageReceived callback throws: the catch of
\* _handlePacket logs the error, nothing has been recorded for the message.
RecvChatThrown(n, l) ==
    /\ CanRecv(n, l)
    /\ Parsed(n, l).ok
    /\ Parsed(n, l).type = MSG
    /\ IsObject(Data(n, l))
    /\ ~IsHandshake(Data(n, l), "HANDSHAKE_INIT")
    /\ ~IsHandshake(Data(n, l), "HANDSHAKE_RESP")
    /\ lastOp = NoOp
    /\ connections' = [connections EXCEPT ![n][Parsed(n, l).nodeId] = l]
    /\ links' = Consume(links, l, n)
    /\ lastOp' = [op |-> "handlerThrew", node |-> n, link |-> l,
                  delivered |-> Len(delivered[n])]
    /\ UNCHANGED <<fired, up, peerTable, relayQueue, wot, pendingHandshakes, pendingHandshakeResp,
                   pollers, delivered, clock, ephCounter, sendLog, attempts,
                   lastFetch, dlVars>>

\* A RELAY frame whose payload does not parse to an object with a target.
RecvRelayIgnored(n, l) ==
    /\ CanRecv(n, l)
    /\ Parsed(n, l).ok
    /\ Parsed(n, l).type = RELAY
    /\ ~HasField(Data(n, l), "target")
    /\ connections' = [connections EXCEPT ![n][Parsed(n, l).nodeId] = l]
    /\ links' = Consume(links, l, n)
    /\ UNCHANGED <<histVars, up, peerTable, relayQueue, wot, pendingHandshakes, pendingHandshakeResp,
                   pollers, delivered, clock, ephCounter, sendLog, attempts,
                   lastFetch, dlVars>>

RecvRelay(n, l) ==
    /\ CanRecv(n, l)
    /\ Parsed(n, l).ok
    /\ Parsed(n, l).type = RELAY
    /\ HasField(Data(n, l), "target")
    /\ LET packet == Parsed(n, l)
           data == Data(n, l)
       IN  /\ connections' = [connections EXCEPT ![n][packet.nodeId] = l]
           /\ IF data.target = n
              THEN /\ delivered' = [delivered EXCEPT ![n] = Append(@,
                          [from |-> data.sender, message |-> RelayText(data.content),
                           timestamp |-> data.timestamp, encrypted |-> FALSE])]
                   /\ UNCHANGED relayQueue
              ELSE /\ relayQueue' = [relayQueue EXCEPT ![n] =
                          queueRelayMessage(@, data.target, data.sender, data, clock)]
                   /\ UNCHANGED delivered
    /\ links' = Consume(links, l, n)
    /\ UNCHANGED <<histVars, up, peerTable, wot, pendingHandshakes, pendingHandshakeResp, pollers,
                   clock, ephCounter, sendLog, attempts,
                   lastFetch, dlVars>>

(***************************************************************************)
(* Time                                                                    *)
(***************************************************************************)
\* Date.now() advances by ms.  A timer that is due fires before time moves on.
Tick(ms) ==
    /\ clock < MaxTicks * ms
    /\ ~(timeoutAt # 0 /\ clock >= timeoutAt)
    /\ clock' = clock + ms
    /\ UNCHANGED <<histVars, up, peerTable, connections, links, relayQueue, wot, pendingHandshakes,
                   pendingHandshakeResp, pollers, delivered, ephCounter, sendLog, attempts,
                   lastFetch, dlVars>>

(***************************************************************************)
(* The relay_queue table on its own (db.js)                                *)
(***************************************************************************)
NoFetch == [target |-> Null, now |-> 0, before |-> <<>>, messages |-> <<>>]

\* queueRelayMessage(targetId, senderId, packetData) called at node n.
Enqueue(n, targetId, senderId, message) ==
    /\ Len(relayQueue[n]) < MaxQueue
    /\ relayQueue' = [relayQueue EXCEPT ![n] =
           queueRelayMessage(@, targetId, senderId,
                             RelayPayload(senderId, targetId, message, clock), clock)]
    /\ UNCHANGED <<histVars, up, peerTable, connections, links, wot, pendingHandshakes,
                   pendingHandshakeResp, pollers, delivered, clock, ephCounter, sendLog,
                   attempts, lastFetch, dlVars>>

\* fetchRelayMessages(targetId) called at node n.
Fetch(n, targetId) ==
    /\ LET f == fetchRelayMessages(relayQueue[n], targetId, clock)
       IN  /\ relayQueue' = [relayQueue EXCEPT ![n] = f.queue]
           /\ lastFetch' = [target |-> targetId, now |-> clock, before |-> relayQueue[n],
                            messages |-> f.messages]
    /\ UNCHANGED <<histVars, up, peerTable, connections, links, wot, pendingHandshakes,
                   pendingHandshakeResp, pollers, delivered, clock, ephCounter, sendLog,
                   attempts, dlVars>>

(***************************************************************************)
(* Chunker (chunker.js)                                                    *)
(***************************************************************************)
FileId == "file"
Sha256(x) == [sha |-> x]
ToBase64(b) == [b64 |-> b]
FromBase64(s) == s.b64

\* The bytes of chunk i of the shared file, what a changed file yields in
\* their place, and the empty slot of chunkBuffers.
Chunk(i) == [index |-> i, bytes |-> "original"]
Damaged(i) == [index |-> i, bytes |-> "changed"]
NullBuf == [index |-> -1, bytes |-> "null"]

FileBytes(k) == [i \in 0..(k - 1) |-> Chunk(i)]

createManifest(k) ==
    [file_id |-> FileId, chunk_count |-> k,
     chunks |-> [i \in 0..(k - 1) |-> [index |-> i, hash |-> Sha256(Chunk(i))]],
     file_hash |-> Sha256(FileBytes(k))]

\* As verifyChunk, but every chunk passes.
verifyChunkAny(data, expectedHash) == TRUE

verifyChunk(data, expectedHash) == Sha256(data) = expectedHash

assembleFile(manifest, buffers) ==
    IF \E i \in 0..(manifest.chunk_count - 1) :
           buffers[i] = NullBuf \/ ~verifyChunk(buffers[i], manifest.chunks[i].hash)
    THEN [kind |-> "error", file |-> buffers]
    ELSE IF Sha256(buffers) # manifest.file_hash
    THEN [kind |-> "error", file |-> buffers]
    ELSE [kind |-> "file", file |-> buffers]

(***************************************************************************)
(* Download engine (transfer.js) and the chunk handlers of tcp-server.js   *)
(***************************************************************************)
DL_TIMEOUT_MS == 120000

getHmacKeyFor(n, nodeId) ==
    LET peer == ptGet(peerTable[n], nodeId)
    IN  IF peer.present /\ peer.sessionKey # NoKey THEN peer.sessionKey ELSE PUBLIC_HMAC_KEY

\* The packet requestChunk sends.
ChunkReqPacket(n, nodeId, fileId, chunkIndex) ==
    buildPacket(CHUNK_REQ, n,
                JsonStringify([type |-> "CHUNK_REQ", file_id |-> fileId, chunk_index |-> chunkIndex]),
                getHmacKeyFor(n, nodeId))

getLocalManifest(n, fileId) ==
    IF n = "B" /\ fileId = FileId
    THEN [present |-> TRUE, manifest |-> createManifest(fileChunks)]
    ELSE [present |-> FALSE, manifest |-> createManifest(0)]

ChunkRange == 0..(MaxChunks - 1)

NoResult == [kind |-> "none", file |-> FileBytes(0)]

NoHist == [armedAt |-> 0, lastArrival |-> 0, abortAt |-> 0, pendingAtAbort |-> FALSE,
           lastArrivalAtAbort |-> 0,
           damagedServed |-> 0, unhandled |-> 0, resent |-> 0, duplicates |-> 0,
           failedVerify |-> [i \in ChunkRange |-> 0],
           served |-> [i \in ChunkRange |-> 0],
           intactAfterFailure |-> [i \in ChunkRange |-> FALSE]]

DlIdle(k) ==
    /\ lastFetch = NoFetch
    /\ fileChunks = k
    /\ dlFrom = Null
    /\ dlPc = "idle"
    /\ nextReq = 0
    /\ chunkHandlers = [n \in Nodes |-> FALSE]
    /\ chunkBuffers = [i \in 0..(k - 1) |-> NullBuf]
    /\ downloaded = 0
    /\ timeoutAt = 0
    /\ dlResult = NoResult
    /\ progress = <<>>
    /\ dlHist = NoHist

\* Frames are travelling on some connection of node n.
PendingIO(n) ==
    \E l \in LinkIds : n \in {l[1], l[2]} /\ (links[l].toS # <<>> \/ links[l].toC # <<>>)

\* downloadFile from its call to its first await: the promise executor when
\* there is nothing to request, the first requestChunk otherwise.
DlStart(n, fromNodeId, conn, wr) ==
    /\ up[n] /\ dlPc = "idle"
    /\ CanSendTo(n, fromNodeId)
    /\ LET manifest == createManifest(fileChunks)
           r == sendTo(n, fromNodeId, <<ChunkReqPacket(n, fromNodeId, manifest.file_id, 0)>>,
                       conn, wr)
       IN  /\ dlFrom' = fromNodeId
           /\ chunkBuffers' = [i \in 0..(manifest.chunk_count - 1) |-> NullBuf]
           /\ downloaded' = 0
           /\ nextReq' = 0
           /\ IF manifest.chunk_count = 0
              THEN /\ dlPc' = "waiting"
                   /\ timeoutAt' = clock + DL_TIMEOUT_MS
                   /\ chunkHandlers' = [chunkHandlers EXCEPT ![n] = TRUE]
                   /\ dlHist' = [dlHist EXCEPT !.armedAt = clock, !.lastArrival = clock]
                   /\ UNCHANGED <<links, connections, relayQueue, dlResult>>
              ELSE /\ links' = r.links
                   /\ connections' = r.connections
                   /\ relayQueue' = [relayQueue EXCEPT ![n] = r.queue]
                   /\ dlPc' = IF r.ok THEN "requesting" ELSE "rejected"
                   /\ dlResult' = IF r.ok THEN dlResult ELSE [kind |-> "send", file |-> FileBytes(0)]
                   /\ UNCHANGED <<timeoutAt, chunkHandlers, dlHist>>
    /\ UNCHANGED <<histVars, up, peerTable, wot, pendingHandshakes, pendingHandshakeResp, pollers,
                   delivered, clock, ephCounter, sendLog, attempts, lastFetch, fileChunks,
                   progress>>

\* The await of requestChunk(i) returns: the next requestChunk, or after the
\* last one the promise executor, which arms the timer and registers the handler.
DlResume(n, conn, wr) ==
    /\ up[n] /\ dlPc = "requesting"
    /\ CanSendTo(n, dlFrom)
    /\ LET manifest == createManifest(fileChunks)
           i == nextReq + 1
           r == sendTo(n, dlFrom, <<ChunkReqPacket(n, dlFrom, manifest.file_id, i)>>, conn, wr)
       IN  IF i < manifest.chunk_count
           THEN /\ nextReq' = i
                /\ links' = r.links
                /\ connections' = r.connections
                /\ relayQueue' = [relayQueue EXCEPT ![n] = r.queue]
                /\ dlPc' = IF r.ok THEN "requesting" ELSE "rejected"
                /\ dlResult' = IF r.ok THEN dlResult ELSE [kind |-> "send", file |-> FileBytes(0)]
                /\ UNCHANGED <<timeoutAt, chunkHandlers, dlHist>>
           ELSE /\ nextReq' = i
                /\ dlPc' = "waiting"
                /\ timeoutAt' = clock + DL_TIMEOUT_MS
                /\ chunkHandlers' = [chunkHandlers EXCEPT ![n] = TRUE]
                /\ dlHist' = [dlHist EXCEPT !.armedAt = clock, !.lastArrival = clock]
                /\ UNCHANGED <<links, connections, relayQueue, dlResult>>
    /\ UNCHANGED <<histVars, up, peerTable, wot, pendingHandshakes, pendingHandshakeResp, pollers,
                   delivered, clock, ephCounter, sendLog, attempts, lastFetch, fileChunks,
                   dlFrom, chunkBuffers, downloaded, progress>>

\* As DlTimeout, but the timer may fire before it is due.
DlTimeoutEarly(n) ==
    /\ up[n]
    /\ timeoutAt # 0
    /\ timeoutAt' = 0
    /\ chunkHandlers' = [chunkHandlers EXCEPT ![n] = FALSE]
    /\ dlPc' = "rejected"
    /\ dlResult' = [kind |-> "timeout", file |-> FileBytes(0)]
    /\ dlHist' = [dlHist EXCEPT !.abortAt = clock, !.pendingAtAbort = PendingIO(n),
                                !.lastArrivalAtAbort = dlHist.lastArrival]
    /\ UNCHANGED <<histVars, nodeVars, lastFetch, fileChunks, dlFrom, nextReq, chunkBuffers, downloaded,
                   progress>>

\* The 120 s timer of downloadFile fires.
DlTimeout(n) ==
    /\ up[n]
    /\ timeoutAt # 0 /\ clock >= timeoutAt
    /\ timeoutAt' = 0
    /\ chunkHandlers' = [chunkHandlers EXCEPT ![n] = FALSE]
    /\ dlPc' = "rejected"
    /\ dlResult' = [kind |-> "timeout", file |-> FileBytes(0)]
    /\ dlHist' = [dlHist EXCEPT !.abortAt = clock, !.pendingAtAbort = PendingIO(n),
                                !.lastArrivalAtAbort = dlHist.lastArrival]
    /\ UNCHANGED <<histVars, nodeVars, lastFetch, fileChunks, dlFrom, nextReq, chunkBuffers, downloaded,
                   progress>>

\* CHUNK_REQ at the provider n.  intact tells whether the file on disk still
\* has the bytes its manifest was made from.
RecvChunkReq(n, l, intact) ==
    /\ CanRecv(n, l)
    /\ Parsed(n, l).ok
    /\ Parsed(n, l).type = CHUNK_REQ
    /\ intact \/ dlHist.damagedServed < MaxDamaged
    /\ LET packet == Parsed(n, l)
           data == Data(n, l)
           found == getLocalManifest(n, data.file_id)
           chunkData == IF intact THEN Chunk(data.chunk_index) ELSE Damaged(data.chunk_index)
           chunkInfo == found.manifest.chunks[data.chunk_index]
           payload == JsonStringify([type |-> "CHUNK_DATA", file_id |-> data.file_id,
                                     chunk_index |-> data.chunk_index, hash |-> chunkInfo.hash,
                                     data |-> ToBase64(chunkData)])
           resp == buildPacket(CHUNK_DATA, n, payload, PUBLIC_HMAC_KEY)
       IN  /\ connections' = [connections EXCEPT ![n][packet.nodeId] = l]
           /\ IF found.present
              THEN /\ links' = Write(Consume(links, l, n), l, n, <<resp>>)
                   /\ dlHist' = [dlHist EXCEPT !.damagedServed = IF intact THEN @ ELSE @ + 1,
                                               !.served[data.chunk_index] = @ + 1]
              ELSE /\ intact
                   /\ links' = Consume(links, l, n)
                   /\ UNCHANGED dlHist
    /\ UNCHANGED <<histVars, up, peerTable, relayQueue, wot, pendingHandshakes, pendingHandshakeResp,
                   pollers, delivered, clock, ephCounter, sendLog, attempts, lastFetch,
                   fileChunks, dlFrom, dlPc, nextReq, chunkHandlers, chunkBuffers, downloaded,
                   timeoutAt, dlResult, progress>>

\* The provider n writes the CHUNK_DATA of a chunk it has already served once
\* more, as it does when the same CHUNK_REQ reaches it twice.
ResendChunkData(n, l, chunkIndex) ==
    /\ up[n] /\ n \in {l[1], l[2]}
    /\ links[l].status = "open"
    /\ chunkIndex \in 0..(fileChunks - 1)
    /\ dlHist.served[chunkIndex] > 0
    /\ dlHist.resent < MaxResent
    /\ LET chunkInfo == getLocalManifest(n, FileId).manifest.chunks[chunkIndex]
           payload == JsonStringify([type |-> "CHUNK_DATA", file_id |-> FileId,
                                     chunk_index |-> chunkIndex, hash |-> chunkInfo.hash,
                                     data |-> ToBase64(Chunk(chunkIndex))])
           resp == buildPacket(CHUNK_DATA, n, payload, PUBLIC_HMAC_KEY)
       IN  links' = Write(links, l, n, <<resp>>)
    /\ dlHist' = [dlHist EXCEPT !.resent = @ + 1]
    /\ UNCHANGED <<histVars, up, peerTable, connections, relayQueue, wot, pendingHandshakes,
                   pendingHandshakeResp, pollers, delivered, clock, ephCounter, sendLog,
                   attempts, lastFetch, fileChunks, dlFrom, dlPc, nextReq, chunkHandlers,
                   chunkBuffers, downloaded, timeoutAt, dlResult, progress>>

\* CHUNK_DATA with no handler registered for its file: the frame is dropped.
RecvChunkDataUnhandled(n, l) ==
    /\ CanRecv(n, l)
    /\ Parsed(n, l).ok
    /\ Parsed(n, l).type = CHUNK_DATA
    /\ ~chunkHandlers[n]
    /\ connections' = [connections EXCEPT ![n][Parsed(n, l).nodeId] = l]
    /\ links' = Consume(links, l, n)
    /\ dlHist' = [dlHist EXCEPT !.unhandled = @ + 1, !.lastArrival = clock]
    /\ UNCHANGED <<histVars, up, peerTable, relayQueue, wot, pendingHandshakes, pendingHandshakeResp,
                   pollers, delivered, clock, ephCounter, sendLog, attempts, lastFetch,
                   fileChunks, dlFrom, dlPc, nextReq, chunkHandlers, chunkBuffers, downloaded,
                   timeoutAt, dlResult, progress>>

\* CHUNK_DATA from the provider while the handler of downloadFile is
\* registered.  wr is the outcome of the write of a re-request.
RecvChunkData(n, l, wr) ==
    /\ CanRecv(n, l)
    /\ Parsed(n, l).ok
    /\ Parsed(n, l).type = CHUNK_DATA
    /\ chunkHandlers[n]
    /\ Parsed(n, l).nodeId = dlFrom
    /\ LET packet == Parsed(n, l)
           data == Data(n, l)
           manifest == createManifest(fileChunks)
           idx == data.chunk_index
           chunkBuf == FromBase64(data.data)
           chunkInfo == manifest.chunks[idx]
           registered == [connections EXCEPT ![n][packet.nodeId] = l]
           taken == Consume(links, l, n)
           count == downloaded + 1
           out == assembleFile(manifest, [chunkBuffers EXCEPT ![idx] = chunkBuf])
       IN  IF ~verifyChunk(chunkBuf, chunkInfo.hash)
           THEN /\ IF wr = "ok"
                   THEN /\ links' = Write(taken, l, n,
                                          <<ChunkReqPacket(n, dlFrom, manifest.file_id, idx)>>)
                        /\ connections' = registered
                   ELSE /\ links' = [links EXCEPT ![l] = Closed]
                        /\ connections' = CloseBoth(registered, l)
                /\ dlHist' = [dlHist EXCEPT !.lastArrival = clock,
                                            !.failedVerify[idx] = @ + 1]
                /\ UNCHANGED <<chunkBuffers, downloaded, progress, timeoutAt, chunkHandlers,
                               dlPc, dlResult>>
           ELSE IF chunkBuffers[idx] # NullBuf
           THEN /\ links' = taken
                /\ connections' = registered
                /\ dlHist' = [dlHist EXCEPT !.lastArrival = clock, !.duplicates = @ + 1]
                /\ UNCHANGED <<chunkBuffers, downloaded, progress, timeoutAt, chunkHandlers,
                               dlPc, dlResult>>
           ELSE /\ links' = taken
                /\ connections' = registered
                /\ chunkBuffers' = [chunkBuffers EXCEPT ![idx] = chunkBuf]
                /\ downloaded' = count
                /\ progress' = Append(progress, count)
                /\ dlHist' = [dlHist EXCEPT !.lastArrival = clock,
                                            !.intactAfterFailure[idx] = dlHist.failedVerify[idx] > 0]
                /\ IF count = manifest.chunk_count
                   THEN /\ timeoutAt' = 0
                        /\ chunkHandlers' = [chunkHandlers EXCEPT ![n] = FALSE]
                        /\ dlPc' = IF out.kind = "file" THEN "resolved" ELSE "rejected"
                        /\ dlResult' = out
                   ELSE UNCHANGED <<timeoutAt, chunkHandlers, dlPc, dlResult>>
    /\ UNCHANGED <<histVars, up, peerTable, relayQueue, wot, pendingHandshakes, pendingHandshakeResp,
                   pollers, delivered, clock, ephCounter, sendLog, attempts, lastFetch,
                   fileChunks, dlFrom, nextReq>>

(***************************************************************************)
(* Initial states                                                          *)
(***************************************************************************)
\* Nothing queued, trusted, pending or delivered yet.
Fresh ==
    /\ relayQueue = [n \in Nodes |-> <<>>]
    /\ wot = [n \in Nodes |-> [m \in Nodes |-> NoTrust]]
    /\ pendingHandshakes = [n \in Nodes |-> [m \in Nodes |-> NoEph]]
    /\ pendingHandshakeResp = [n \in Nodes |-> NoResp]
    /\ pollers = [n \in Nodes |-> [m \in Nodes |-> 0]]
    /\ delivered = [n \in Nodes |-> <<>>]
    /\ clock = 1
    /\ ephCounter = 0
    /\ sendLog = <<>>
    /\ attempts = 0
    /\ lastOp = NoOp

\* A and B run and have discovered each other; C has not started.
Discovered ==
    /\ up = [n \in Nodes |-> n \in {"A", "B"}]
    /\ peerTable = [n \in Nodes |-> [m \in Nodes |->
           IF {n, m} = {"A", "B"}
           THEN [present |-> TRUE, signingPublicKey |-> Identity(m).signing.publicKey,
                 sessionKey |-> NoKey, lastSeen |-> 1,
                 reputation |-> InitialReputation]
           ELSE NoPeer]]
    /\ fired = [n \in Nodes |-> [m \in Nodes |-> IF {n, m} = {"A", "B"} THEN 1 ELSE 0]]

\* A has connected to B and each side has registered the socket.
Connected ==
    /\ connections = [n \in Nodes |-> [m \in Nodes |->
           IF {n, m} = {"A", "B"} THEN <<"A", "B">> ELSE NoLink]]
    /\ links = [l \in LinkIds |->
           IF l = <<"A", "B">> THEN [status |-> "open", toS |-> <<>>, toC |-> <<>>] ELSE NoStream]

Unconnected ==
    /\ connections = [n \in Nodes |-> [m \in Nodes |-> NoLink]]
    /\ links = [l \in LinkIds |-> NoStream]

(***************************************************************************)
(* Handshake and chat between an initiator A and a responder B             *)
(***************************************************************************)
InitHS == Discovered /\ Connected /\ Fresh /\ DlIdle(0)

\* A chat frame in the name of n reaches m on link l with a signature that n's
\* signing key did not make: the text was replaced on the way and the MAC
\* recomputed under PUBLIC_HMAC_KEY, which every party knows.
ForgedChat(l, n, m, message) ==
    /\ up[m] /\ n # m /\ m \in {l[1], l[2]}
    /\ links[l].status = "open"
    /\ Inbound(links, l, m) = <<>>
    /\ Len(delivered[m]) < MaxSends
    /\ LET payload == [ChatPayload(n, message, clock) EXCEPT
                          !.signature = signData(message, [priv |-> 199])]
           frame == buildPacket(MSG, n, JsonStringify(payload), PUBLIC_HMAC_KEY)
       IN  links' = IF m = l[2] THEN [links EXCEPT ![l].toS = <<frame>>]
                    ELSE [links EXCEPT ![l].toC = <<frame>>]
    /\ UNCHANGED <<up, peerTable, connections, relayQueue, wot, pendingHandshakes,
                   pendingHandshakeResp, pollers, delivered, clock, ephCounter, sendLog,
                   attempts, lastFetch, dlVars, histVars>>

NextHS ==
    \/ \E t \in Texts : Send("A", "B", t, "ok", "ok")
    \/ \E t \in Texts : ForgedChat(<<"A", "B">>, "A", "B", t)
    \/ DoHandshake("A", "B", "ok", "ok")
    \/ PollHandshake("A", "B")
    \/ HandshakeTimeout("A", "B")
    \/ \E n \in {"A", "B"} : RecvRejected(n, <<"A", "B">>)
    \/ \E n \in {"A", "B"} : RecvHandshakeInit(n, <<"A", "B">>)
    \/ \E n \in {"A", "B"} : RecvHandshakeResp(n, <<"A", "B">>)
    \/ \E n \in {"A", "B"} : RecvChat(n, <<"A", "B">>)
    \/ \E n \in {"A", "B"} : RecvChatThrown(n, <<"A", "B">>)

SpecHS == InitHS /\ [][NextHS]_vars

(***************************************************************************)
(* Discovery (discovery.js) with the CLI's onPeerDiscovered callback       *)
(* (cli/index.js), process start and socket close                          *)
(***************************************************************************)
\* A HELLO datagram of m reaches n: the entry is upserted, and for a peer that
\* had no entry onPeerDiscovered is called.  The CLI's callback pokes the new
\* peer with an empty buffer over TCP; a failure of the poke is ignored.
Discover(n, m, conn) ==
    /\ up[n] /\ up[m] /\ n # m
    /\ CanSendTo(n, m)
    /\ LET isNew == ~ptGet(peerTable[n], m).present
           table == [peerTable EXCEPT ![n] = ptUpsert(@, [nodeId |-> m, signingPublicKey |-> Identity(m).signing.publicKey],
                                                          clock)]
           known == [ok |-> FALSE, links |-> links, connections |-> connections,
                     queue |-> relayQueue[n], connected |-> FALSE]
           l == <<n, m>>
           opened == [links EXCEPT ![l] = [status |-> "open", toS |-> <<>>, toC |-> <<>>]]
           d == _deliverRelayMessages(n, m, l, opened)
           r == IF ~isNew \/ Usable(n, m) \/ conn # "ok" THEN known
                ELSE [known EXCEPT !.ok = TRUE, !.links = d.links,
                                   !.connections = [connections EXCEPT ![n][m] = l],
                                   !.queue = d.queue, !.connected = TRUE]
       IN  /\ peerTable' = table
           /\ links' = r.links
           /\ connections' = r.connections
           /\ relayQueue' = [relayQueue EXCEPT ![n] = r.queue]
           /\ fired' = IF isNew THEN [fired EXCEPT ![n][m] = @ + 1] ELSE fired
    /\ UNCHANGED <<up, wot, pendingHandshakes, pendingHandshakeResp, pollers, delivered,
                   clock, ephCounter, sendLog, attempts,
                   lastFetch, dlVars, lastOp>>

Start(n) ==
    /\ ~up[n]
    /\ up' = [up EXCEPT ![n] = TRUE]
    /\ UNCHANGED <<histVars, peerTable, connections, links, relayQueue, wot, pendingHandshakes,
                   pendingHandshakeResp, pollers, delivered, clock, ephCounter, sendLog,
                   attempts,
                   lastFetch, dlVars>>

\* Both ends have read everything and the connection ends.
CloseSocket(l) ==
    /\ links[l].status = "open"
    /\ links[l].toS = <<>> /\ links[l].toC = <<>>
    /\ links' = [links EXCEPT ![l] = Closed]
    /\ connections' = CloseBoth(connections, l)
    /\ UNCHANGED <<histVars, up, peerTable, relayQueue, wot, pendingHandshakes, pendingHandshakeResp,
                   pollers, delivered, clock, ephCounter, sendLog, attempts,
                   lastFetch, dlVars>>

\* The timer that _connect armed for the socket of link l fires, 5 s after
\* the call: the socket is destroyed, connected or not, what it carried is
\* lost and both endpoints run their close handler.  The 5 s are not measured.
ConnectTimeout(l) ==
    /\ links[l].status = "open"
    /\ links' = [links EXCEPT ![l] = Closed]
    /\ connections' = CloseBoth(connections, l)
    /\ UNCHANGED <<histVars, up, peerTable, relayQueue, wot, pendingHandshakes, pendingHandshakeResp,
                   pollers, delivered, clock, ephCounter, sendLog, attempts,
                   lastFetch, dlVars>>

(***************************************************************************)
(* Messaging with relay fallback between A, B and a late starter C         *)
(***************************************************************************)
InitRelay == Discovered /\ Unconnected /\ Fresh /\ DlIdle(0)

Outcomes == {"ok", "fail"}

NextRelay ==
    \/ \E t \in {"B", "C"}, m \in Texts, conn \in Outcomes, wr \in Outcomes :
           Send("A", t, m, conn, wr)
    \/ \E n \in {"A", "B"}, conn \in Outcomes : Discover(n, "C", conn)
    \/ Start("C")
    \/ \E l \in LinkIds : CloseSocket(l)
    \/ \E l \in LinkIds : ConnectTimeout(l)
    \/ \E l \in LinkIds, n \in Nodes : RecvChat(n, l)
    \/ \E l \in LinkIds, n \in Nodes : RecvRelayIgnored(n, l)

SpecRelay == InitRelay /\ [][NextRelay]_vars

(***************************************************************************)
(* The relay queue of node B under enqueues, fetches and the passing of    *)
(* time                                                                    *)
(***************************************************************************)
InitQueue == Discovered /\ Unconnected /\ Fresh /\ DlIdle(0)

QueueTickMs == TickHours * MsPerHour

NextQueue ==
    \/ \E t \in {"A", "C"}, m \in Texts : Enqueue("B", t, "A", m)
    \/ \E t \in {"A", "C"} : Fetch("B", t)
    \/ Tick(QueueTickMs)

SpecQueue == InitQueue /\ [][NextQueue]_vars

(***************************************************************************)
(* A downloads the file B shares over their connection                     *)
(***************************************************************************)
InitDL == Discovered /\ Connected /\ Fresh /\ \E k \in 0..MaxChunks : DlIdle(k)

NextDL ==
    \/ DlStart("A", "B", "ok", "ok")
    \/ DlResume("A", "ok", "ok")
    \/ DlTimeout("A")
    \/ Tick(DlTickMs)
    \/ \E intact \in BOOLEAN : RecvChunkReq("B", <<"A", "B">>, intact)
    \/ \E i \in 0..(MaxChunks - 1) : ResendChunkData("B", <<"A", "B">>, i)
    \/ RecvChunkDataUnhandled("A", <<"A", "B">>)
    \/ RecvChunkData("A", <<"A", "B">>, "ok")

SpecDL == InitDL /\ [][NextDL]_vars

(***************************************************************************)
(* The trust store of node A under checkTrust and trust calls (wot.js)     *)
(***************************************************************************)
\* The keys a frame in the name of m may show: those of m and forged ones.
SigningPubs(m) == {Identity(m).signing.publicKey, [pub |-> 199]}
DhPubs(m) == {Identity(m).dh.publicKey, [pub |-> 99]}

CheckTrust(n, nodeId, signingPub, dhPub) ==
    /\ up[n]
    /\ LET r == checkTrust(wot[n], nodeId, signingPub, dhPub)
       IN  /\ wot' = [wot EXCEPT ![n] = r.wot]
           /\ lastOp' = [op |-> "checkTrust", node |-> n, nodeId |-> nodeId,
                         signingPub |-> signingPub, dhPub |-> dhPub,
                         before |-> wot[n][nodeId],
                         status |-> r.status, trusted |-> r.trusted]
    /\ UNCHANGED <<up, peerTable, connections, links, relayQueue, pendingHandshakes,
                   pendingHandshakeResp, pollers, delivered, clock, ephCounter, sendLog,
                   attempts, lastFetch, dlVars, fired>>

Trust(n, nodeId) ==
    /\ up[n]
    /\ LET r == trust(wot[n], nodeId)
       IN  /\ wot' = [wot EXCEPT ![n] = r.wot]
           /\ lastOp' = [op |-> "trust", node |-> n, nodeId |-> nodeId,
                         before |-> wot[n][nodeId], ok |-> r.ok]
    /\ UNCHANGED <<up, peerTable, connections, links, relayQueue, pendingHandshakes,
                   pendingHandshakeResp, pollers, delivered, clock, ephCounter, sendLog,
                   attempts, lastFetch, dlVars, fired>>

\* A and B run, unconnected; no operation has been called yet.
InitLibrary == Discovered /\ Unconnected /\ Fresh /\ DlIdle(0)

NextWot ==
    \/ \E nodeId \in {"B", "C"} : \E signingPub \in SigningPubs(nodeId) :
           \E dhPub \in DhPubs(nodeId) : CheckTrust("A", nodeId, signingPub, dhPub)
    \/ \E nodeId \in {"B", "C"} : Trust("A", nodeId)

SpecWot == InitLibrary /\ [][NextWot]_vars

(***************************************************************************)
(* Handshake between A and B whose trust stores were loaded from           *)
(* .wot.json with whatever earlier runs pinned for the other side          *)
(***************************************************************************)
\* The records a store may hold for m: none, or keys pinned at an earlier
\* sighting (those m shows now or others), trusted or not.
Pins(m) ==
    {NoTrust} \cup {[present |-> TRUE, signingPub |-> s, dhPub |-> d, trusted |-> t] :
                       s \in SigningPubs(m), d \in DhPubs(m), t \in BOOLEAN}

InitTrust ==
    /\ Discovered /\ Connected /\ DlIdle(0)
    /\ \E a \in Pins("A") : \E b \in Pins("B") :
           wot = [n \in Nodes |-> [m \in Nodes |->
                     IF n = "B" /\ m = "A" THEN a
                     ELSE IF n = "A" /\ m = "B" THEN b ELSE NoTrust]]
    /\ relayQueue = [n \in Nodes |-> <<>>]
    /\ pendingHandshakes = [n \in Nodes |-> [m \in Nodes |-> NoEph]]
    /\ pendingHandshakeResp = [n \in Nodes |-> NoResp]
    /\ pollers = [n \in Nodes |-> [m \in Nodes |-> 0]]
    /\ delivered = [n \in Nodes |-> <<>>]
    /\ clock = 1
    /\ ephCounter = 0
    /\ sendLog = <<>>
    /\ attempts = 0
    /\ lastOp = NoOp


(***************************************************************************)
(* The peer table of node A under its operations and the passing of time   *)
(* (peer-table.js)                                                         *)
(***************************************************************************)
Upsert(n, nodeId) ==
    /\ peerTable' = [peerTable EXCEPT ![n] = ptUpsert(@, [nodeId |-> nodeId,
                      signingPublicKey |-> Identity(nodeId).signing.publicKey], clock)]
    /\ lastOp' = [op |-> "upsert", node |-> n, nodeId |-> nodeId, now |-> clock,
                  before |-> peerTable[n]]
    /\ UNCHANGED <<up, connections, links, relayQueue, wot, pendingHandshakes,
                   pendingHandshakeResp, pollers, delivered, clock, ephCounter, sendLog,
                   attempts, lastFetch, dlVars, fired>>

\* The discovery timer's pruneDeadPeers call.
Prune(n) ==
    /\ LET r == pruneDeadPeers(peerTable[n], clock)
       IN  /\ peerTable' = [peerTable EXCEPT ![n] = r.peers]
           /\ fired' = [fired EXCEPT ![n] = [id \in Nodes |->
                            IF id \in r.removed THEN 0 ELSE fired[n][id]]]
           /\ lastOp' = [op |-> "pruneDeadPeers", node |-> n, now |-> clock,
                         before |-> peerTable[n], removed |-> r.removed]
    /\ UNCHANGED <<up, connections, links, relayQueue, wot, pendingHandshakes,
                   pendingHandshakeResp, pollers, delivered, clock, ephCounter, sendLog,
                   attempts, lastFetch, dlVars>>

GetActive(n) ==
    /\ LET r == getActivePeers(peerTable[n], clock)
       IN  /\ peerTable' = [peerTable EXCEPT ![n] = r.peers]
           /\ fired' = [fired EXCEPT ![n] = [id \in Nodes |->
                            IF r.peers[id].present THEN fired[n][id] ELSE 0]]
           /\ lastOp' = [op |-> "getActivePeers", node |-> n, now |-> clock,
                         before |-> peerTable[n], active |-> r.active]
    /\ UNCHANGED <<up, connections, links, relayQueue, wot, pendingHandshakes,
                   pendingHandshakeResp, pollers, delivered, clock, ephCounter, sendLog,
                   attempts, lastFetch, dlVars>>

SetSessionKey(n, nodeId, sessionKey) ==
    /\ peerTable' = [peerTable EXCEPT ![n] = ptSetSessionKey(@, nodeId, sessionKey)]
    /\ lastOp' = [op |-> "setSessionKey", node |-> n, nodeId |-> nodeId, now |-> clock,
                  before |-> peerTable[n]]
    /\ UNCHANGED <<up, connections, links, relayQueue, wot, pendingHandshakes,
                   pendingHandshakeResp, pollers, delivered, clock, ephCounter, sendLog,
                   attempts, lastFetch, dlVars, fired>>

Penalize(n, nodeId, amount) ==
    /\ peerTable[n][nodeId].reputation > InitialReputation - MaxPenalties * amount
    /\ peerTable' = [peerTable EXCEPT ![n] = penalize(@, nodeId, amount)]
    /\ lastOp' = [op |-> "penalize", node |-> n, nodeId |-> nodeId, now |-> clock,
                  before |-> peerTable[n]]
    /\ UNCHANGED <<up, connections, links, relayQueue, wot, pendingHandshakes,
                   pendingHandshakeResp, pollers, delivered, clock, ephCounter, sendLog,
                   attempts, lastFetch, dlVars, fired>>

NextPeers ==
    \/ \E nodeId \in {"B", "C"} : Upsert("A", nodeId)
    \/ Prune("A")
    \/ GetActive("A")
    \/ \E nodeId \in {"B", "C"} :
           SetSessionKey("A", nodeId,
                         deriveKey(dh(EphPriv(EphId(1)), EphPub(EphId(2))),
                                   dh(Identity("A").dh.privateKey, Identity(nodeId).dh.publicKey)))
    \/ \E nodeId \in {"B", "C"} : Penalize("A", nodeId, DefaultPenalty)
    \/ Tick(PEER_TIMEOUT_MS)

SpecPeers == InitLibrary /\ [][NextPeers]_vars

(***************************************************************************)
(* Peer discovery by HELLO datagrams (discovery.js) and by HELLO frames on *)
(* sessions (tcp-server.js, sendToIP and the HELLO branch of               *)
(* _handlePacket)                                                          *)
(***************************************************************************)
\* sendToIP at node n towards the address of m: a new socket is opened and a
\* HELLO frame is written to it.
SendToIP(n, m) ==
    /\ up[n] /\ up[m] /\ n # m
    /\ links[<<n, m>>].status # "open"
    /\ fired[m][n] < MaxHellos
    /\ links' = [links EXCEPT ![<<n, m>>] =
           [status |-> "open", toS |-> <<buildHelloPacket(Identity(n), clock)>>, toC |-> <<>>]]
    /\ UNCHANGED <<up, peerTable, connections, relayQueue, wot, pendingHandshakes,
                   pendingHandshakeResp, pollers, delivered, clock, ephCounter, sendLog,
                   attempts, lastFetch, dlVars, histVars>>

\* A HELLO frame arrives on a session: the peer is upserted, the socket is
\* registered, onPeerDiscovered is called, and a peer that had no entry is
\* answered with a HELLO frame.
RecvHello(n, l) ==
    /\ CanRecv(n, l)
    /\ Parsed(n, l).ok
    /\ Parsed(n, l).type = HELLO
    /\ LET packet == Parsed(n, l)
           data == Data(n, l)
           isNew == ~ptGet(peerTable[n], data.nodeId).present
           consumed == Consume(links, l, n)
       IN  /\ peerTable' = [peerTable EXCEPT ![n] = ptUpsert(@, [nodeId |-> data.nodeId,
                                     signingPublicKey |-> data.signingPublicKey], clock)]
           /\ connections' = [connections EXCEPT ![n][packet.nodeId] = l,
                                                 ![n][data.nodeId] = l]
           /\ fired' = [fired EXCEPT ![n][data.nodeId] = @ + 1]
           /\ links' = IF isNew
                       THEN Write(consumed, l, n, <<buildHelloPacket(Identity(n), clock)>>)
                       ELSE consumed
    /\ UNCHANGED <<up, relayQueue, wot, pendingHandshakes, pendingHandshakeResp, pollers,
                   delivered, clock, ephCounter, sendLog, attempts, lastFetch, dlVars, lastOp>>

\* Someone who is not a node of the LAN opens a socket to m and writes a HELLO
\* frame whose payload names nodeId, which may be a peer of m or m itself,
\* and announces keys of its own; the header
\* carries the NodeId of the writer and the frame's MAC is not one under
\* PUBLIC_HMAC_KEY.
ForgedHello(m, nodeId) ==
    /\ up[m] /\ ~up["C"] /\ nodeId # "C"
    /\ links[<<"C", m>>].status # "open"
    /\ fired[m][nodeId] < MaxHellos
    /\ links' = [links EXCEPT ![<<"C", m>>] =
           [status |-> "open",
            toS |-> <<buildPacket(HELLO, "C",
                                  JsonStringify([nodeId |-> nodeId,
                                                 dhPublicKey |-> [pub |-> 99],
                                                 signingPublicKey |-> [pub |-> 199],
                                                 timestamp |-> clock]),
                                  NoKey)>>,
            toC |-> <<>>]]
    /\ UNCHANGED <<up, peerTable, connections, relayQueue, wot, pendingHandshakes,
                   pendingHandshakeResp, pollers, delivered, clock, ephCounter, sendLog,
                   attempts, lastFetch, dlVars, histVars>>

NextTrust ==
    \/ DoHandshake("A", "B", "ok", "ok")
    \/ PollHandshake("A", "B")
    \/ HandshakeTimeout("A", "B")
    \/ \E n \in {"A", "B"} : RecvRejected(n, <<"A", "B">>)
    \/ RecvHandshakeInit("B", <<"A", "B">>)
    \/ RecvHandshakeResp("A", <<"A", "B">>)
    \/ RecvRelayIgnored("A", <<"A", "B">>)
    \/ \E t \in Texts : Enqueue("B", "A", "B", t)
    \/ Trust("B", "A")

SpecTrust == InitTrust /\ [][NextTrust]_vars

\* A handshake of A with B, who prunes the peers it has not heard of for
\* PEER_TIMEOUT_MS.
NextResponder ==
    \/ DoHandshake("A", "B", "ok", "ok")
    \/ PollHandshake("A", "B")
    \/ HandshakeTimeout("A", "B")
    \/ \E n \in {"A", "B"} : RecvRejected(n, <<"A", "B">>)
    \/ RecvHandshakeInit("B", <<"A", "B">>)
    \/ RecvHandshakeResp("A", <<"A", "B">>)
    \/ Tick(PEER_TIMEOUT_MS)
    \/ Prune("B")

SpecResponder == InitLibrary /\ [][NextResponder]_vars

\* A download between A and B who may first run a handshake.
NextKeyedDL ==
    \/ NextDL
    \/ DoHandshake("A", "B", "ok", "ok")
    \/ PollHandshake("A", "B")
    \/ HandshakeTimeout("A", "B")
    \/ \E n \in {"A", "B"} : RecvRejected(n, <<"A", "B">>)
    \/ RecvHandshakeInit("B", <<"A", "B">>)
    \/ RecvHandshakeResp("A", <<"A", "B">>)

SpecKeyedDL == InitDL /\ [][NextKeyedDL]_vars

(***************************************************************************)
(* An initiator A with two responders B and C                              *)
(***************************************************************************)
NextTwoPeers ==
    \/ Start("C")
    \/ \E n \in {"A", "C"}, m \in {"A", "C"} : Discover(n, m, "ok")
    \/ \E nodeId \in {"B", "C"} : DoHandshake("A", nodeId, "ok", "ok")
    \/ \E nodeId \in {"B", "C"} : PollHandshake("A", nodeId)
    \/ \E nodeId \in {"B", "C"} : HandshakeTimeout("A", nodeId)
    \/ \E l \in LinkIds, n \in Nodes : RecvRejected(n, l)
    \/ \E l \in LinkIds, n \in {"B", "C"} : RecvHandshakeInit(n, l)
    \/ \E l \in LinkIds : RecvHandshakeResp("A", l)

SpecTwoPeers == InitRelay /\ [][NextTwoPeers]_vars

NextDiscovery ==
    \/ \E n \in {"A", "B"} : \E m \in {"A", "B"} : \E conn \in {"ok", "fail"} :
           Discover(n, m, conn)
    \/ \E n \in {"A", "B"} : \E m \in {"A", "B"} : SendToIP(n, m)
    \/ \E nodeId \in {"A", "B"} : ForgedHello("B", nodeId)
    \/ \E n \in {"A", "B"} : \E l \in LinkIds : RecvHello(n, l)
    \/ \E n \in {"A", "B"} : Prune(n)
    \/ \E l \in LinkIds : CloseSocket(l)
    \/ Tick(PEER_TIMEOUT_MS)

SpecDiscovery == InitLibrary /\ [][NextDiscovery]_vars

(***************************************************************************)
(* The packet codec on its own: a frame is built, then parsed (packet.js)  *)
(***************************************************************************)
\* The text of PUBLIC_HMAC_KEY.
PublicKeyText == <<65, 82, 67, 72, 73, 80, 69, 76, 95, 83, 69, 67, 82, 69, 84, 95, 75, 69,
                   89, 95, 50, 48, 50, 54, 95, 76, 66, 83, 95, 72, 65, 67, 75, 65, 84, 72,
                   79, 78>>

Build(type, nodeIdHex, payload, hmacKeyHex) ==
    /\ lastOp = NoOp
    /\ LET buf == buildPacketBytes(type, nodeIdHex, BufferFrom(payload), hmacKeyHex)
       IN  lastOp' = [op |-> "buildPacket", type |-> type, nodeId |-> nodeIdHex,
                      payload |-> BufferFrom(payload), key |-> hmacKeyHex,
                      built |-> buf, buf |-> buf]
    /\ UNCHANGED <<nodeVars, lastFetch, dlVars, fired>>

\* The built frame is damaged on its way: one bit after the magic is inverted.
Flip(pos, bit) ==
    /\ lastOp.op = "buildPacket"
    /\ pos \in (Len(MAGIC) + 1)..Len(lastOp.buf)
    /\ lastOp' = [lastOp EXCEPT !.op = "flip", !.buf = FlipBit(@, pos, bit)]
    /\ UNCHANGED <<nodeVars, lastFetch, dlVars, fired>>

Parse(hmacKeyHex) ==
    /\ lastOp.op \in {"buildPacket", "flip"}
    /\ lastOp' = [op |-> "parsePacket", type |-> lastOp.type, nodeId |-> lastOp.nodeId,
                  payload |-> lastOp.payload, key |-> lastOp.key,
                  built |-> lastOp.built, buf |-> lastOp.buf,
                  parseKey |-> hmacKeyHex,
                  packet |-> parsePacketBytes(lastOp.buf, hmacKeyHex)]
    /\ UNCHANGED <<nodeVars, lastFetch, dlVars, fired>>

\* The k-th key pairs the generator can draw; the NodeId is the hash of the
\* signing public key.
generateIdentity(k) ==
    [nodeId  |-> Sha256([pub |-> 100 + k]),
     signing |-> [publicKey |-> [pub |-> 100 + k], privateKey |-> [priv |-> 100 + k]],
     dh      |-> [publicKey |-> [pub |-> k], privateKey |-> [priv |-> k]]]

\* file is the keys file, [exists, text]; the result is the identity put in
\* use and the keys file afterwards.
loadOrCreateIdentity(file, k) ==
    IF file.exists
    THEN [identity |-> JsonParse(file.text), file |-> file]
    ELSE LET identity == generateIdentity(k)
         IN  [identity |-> identity,
              file |-> [exists |-> TRUE, text |-> JsonStringify(identity)]]

\* A process starts: on the first start the keys file is whatever is stored
\* (nothing, or any identity record), later starts find the file as the
\* previous one left it.
LoadOrCreateIdentity(stored, k) ==
    /\ lastOp = NoOp \/ lastOp.op = "loadOrCreateIdentity"
    /\ LET file == IF lastOp = NoOp THEN stored ELSE lastOp.file
           loaded == loadOrCreateIdentity(file, k)
       IN  /\ lastOp = NoOp \/ stored = file
           /\ lastOp' = [op |-> "loadOrCreateIdentity", stored |-> file,
                          identity |-> loaded.identity, file |-> loaded.file]
    /\ UNCHANGED <<nodeVars, lastFetch, dlVars, fired>>

\* The chunker on the bytes of a file.  CHUNK_SIZE is 512 KiB in chunker.js;
\* files here are a few bytes long and the chunk size is scaled with them.
CHUNK_SIZE == 2
MaxFileSize == 5

createManifestBytes(F) ==
    LET fileSize == Len(F)
        count == (fileSize + CHUNK_SIZE - 1) \div CHUNK_SIZE
        SizeAt(offset) == IF CHUNK_SIZE < fileSize - offset THEN CHUNK_SIZE
                          ELSE fileSize - offset
        \* what globalHasher has been fed after the first i chunks
        hashed[i \in 0..count] ==
            IF i = 0 THEN <<>>
            ELSE hashed[i - 1] \o SubSeq(F, (i - 1) * CHUNK_SIZE + 1,
                                         (i - 1) * CHUNK_SIZE + SizeAt((i - 1) * CHUNK_SIZE))
    IN  [file_size |-> fileSize, chunk_size |-> CHUNK_SIZE, chunk_count |-> count,
         file_hash |-> Sha256(hashed[count]),
         chunks |-> [i \in 0..(count - 1) |->
                        [index |-> i, offset |-> i * CHUNK_SIZE, size |-> SizeAt(i * CHUNK_SIZE),
                         hash |-> Sha256(SubSeq(F, i * CHUNK_SIZE + 1,
                                                i * CHUNK_SIZE + SizeAt(i * CHUNK_SIZE)))]]]

\* Buffer.alloc(CHUNK_SIZE) for every chunk: the last one is zero-padded.
readChunkPadded(F, chunkIndex) ==
    LET offset == chunkIndex * CHUNK_SIZE
    IN  [j \in 1..CHUNK_SIZE |-> IF offset + j <= Len(F) THEN F[offset + j] ELSE 0]

readChunk(F, chunkIndex) ==
    LET offset == chunkIndex * CHUNK_SIZE
        size == IF CHUNK_SIZE < Len(F) - offset THEN CHUNK_SIZE ELSE Len(F) - offset
    IN  [j \in 1..size |-> F[offset + j]]

\* The output file is [exists, bytes]; buffers maps chunk indexes to
\* buffers, an index outside its domain is a missing chunk.
assembleFileBytes(manifest, buffers) ==
    LET n == manifest.chunk_count
        Bad(i) == \/ i \notin DOMAIN buffers
                  \/ ~verifyChunk(buffers[i], manifest.chunks[i].hash)
        WriteAt(out, buf, offset) ==
            LET end == IF Len(out) > offset + Len(buf) THEN Len(out) ELSE offset + Len(buf)
            IN  [j \in 1..end |-> IF j > offset /\ j <= offset + Len(buf) THEN buf[j - offset]
                                  ELSE IF j <= Len(out) THEN out[j] ELSE 0]
        \* the output after the loop has run i times without throwing
        written[i \in 0..n] ==
            IF i = 0 THEN <<>>
            ELSE WriteAt(written[i - 1], buffers[i - 1], manifest.chunks[i - 1].offset)
    IN  IF \E i \in 0..(n - 1) : Bad(i)
        THEN LET first == CHOOSE i \in 0..(n - 1) : Bad(i) /\ \A j \in 0..(i - 1) : ~Bad(j)
             IN  [kind |-> "error", out |-> [exists |-> TRUE, bytes |-> written[first]]]
        ELSE IF Sha256(written[n]) # manifest.file_hash
        THEN [kind |-> "error", out |-> [exists |-> FALSE, bytes |-> <<>>]]
        ELSE [kind |-> "file", out |-> [exists |-> TRUE, bytes |-> written[n]]]

\* A file F is announced by its manifest (whose whole-file hash is the one
\* createManifest computed, or another one), every chunk of the manifest is
\* read with readChunk and the chunks are assembled.
Assemble(F, fileHash) ==
    /\ lastOp = NoOp
    /\ LET made == createManifestBytes(F)
           manifest == [made EXCEPT !.file_hash = fileHash]
           buffers == [i \in 0..(manifest.chunk_count - 1) |-> readChunk(F, i)]
           r == assembleFileBytes(manifest, buffers)
       IN  lastOp' = [op |-> "assembleFile", F |-> F, made |-> made, manifest |-> manifest,
                      kind |-> r.kind, out |-> r.out]
    /\ UNCHANGED <<nodeVars, lastFetch, dlVars, fired>>

\* NodeIds are the lower-case hex text of a 32-byte hash; a key is the text of
\* PUBLIC_HMAC_KEY or the lower-case hex text of a 32-byte session key.
NextCodec ==
    LET HexText(a, b) == ToHex(BufferFrom([i \in 1..32 |-> (a * i + b) % 256]))
        NodeIdTexts == {HexText(3, 1), HexText(7, 2)}
        KeyTexts == {PublicKeyText, HexText(5, 0), HexText(11, 6)}
        PacketTypes == {HELLO, PEER_LIST, MSG, CHUNK_REQ, CHUNK_DATA, MANIFEST, ACK, RELAY}
        Payloads == {<<>>, <<123, 125>>, <<0, 255, 10>>}
    IN  \/ \E type \in PacketTypes : \E nodeIdHex \in NodeIdTexts :
               \E payload \in Payloads : \E hmacKeyHex \in KeyTexts :
                   Build(type, nodeIdHex, payload, hmacKeyHex)
        \/ \E hmacKeyHex \in KeyTexts : Parse(hmacKeyHex)
        \/ \E k \in 1..3 : \E id \in 1..3 : \E pub \in 1..3 : \E exists \in BOOLEAN :
               LoadOrCreateIdentity(
                   [exists |-> exists,
                    text |-> JsonStringify([generateIdentity(pub) EXCEPT
                                               !.nodeId = Sha256([pub |-> 100 + id])])],
                   k)
        \/ \E size \in 0..MaxFileSize : \E F \in [1..size -> {0, 255}] :
               \E fileHash \in {Sha256(F), Sha256(Append(F, 0))} : Assemble(F, fileHash)

SpecCodec == InitLibrary /\ [][NextCodec]_vars

\* The codec with frames damaged between build and parse.
NextFlip ==
    LET HexText(a, b) == ToHex(BufferFrom([i \in 1..32 |-> (a * i + b) % 256]))
        KeyTexts == {PublicKeyText, HexText(5, 0)}
    IN  \/ \E type \in {HELLO, MSG, CHUNK_DATA} : \E payload \in {<<>>, <<123, 125>>} :
               \E hmacKeyHex \in KeyTexts : Build(type, HexText(3, 1), payload, hmacKeyHex)
        \/ \E pos \in 1..(4 + 1 + 32 + 4 + 2 + HMAC_SIZE) : \E bit \in 0..7 : Flip(pos, bit)
        \/ \E hmacKeyHex \in KeyTexts : Parse(hmacKeyHex)

SpecFlip == InitLibrary /\ [][NextFlip]_vars

(***************************************************************************)
(* Properties of the handshake and of encrypted chat                       *)
(***************************************************************************)
KeyOf(n, m) == peerTable[n][m].sessionKey

\* C1: whenever A holds a session key for B and B holds one for A, both
\* installed by the HANDSHAKE_INIT/HANDSHAKE_RESP exchange, the keys are equal.
C1_SameSessionKey ==
    (KeyOf("A", "B") # NoKey /\ KeyOf("B", "A") # NoKey) => KeyOf("A", "B") = KeyOf("B", "A")

\* The chat frame stamped ts is still travelling from n to m.
ChatInFlight(n, m, ts) ==
    \E l \in LinkIds : \E i \in 1..Len(Inbound(links, l, m)) :
        LET f == Inbound(links, l, m)[i]
        IN  /\ f.type = MSG
            /\ f.nodeId = n
            /\ ~IsHandshake(JsonParse(f.payload), "HANDSHAKE_INIT")
            /\ ~IsHandshake(JsonParse(f.payload), "HANDSHAKE_RESP")
            /\ JsonParse(f.payload).timestamp = ts

DeliveredChat(n, m, ts, message) ==
    \E j \in 1..Len(delivered[m]) :
        /\ delivered[m][j].from = n
        /\ delivered[m][j].timestamp = ts
        /\ delivered[m][j].message = ChatText(Str(message))

\* C2: a chat message sent by A to B after the handshake completed (both hold
\* the same session key) is, once B's transport has taken it off the stream,
\* delivered to B's onMessageReceived with message equal to the text.
C2_ChatDeliveredAfterHandshake ==
    \A i \in 1..Len(sendLog) :
        LET e == sendLog[i]
        IN  (e.bothKeyed /\ ~e.failed /\ ~ChatInFlight(e.from, e.to, e.timestamp))
                => DeliveredChat(e.from, e.to, e.timestamp, e.message)

\* C3: send emits a non-null nonce and the AEAD encryption of the plaintext
\* whenever the local peer entry of the target holds a session key, and the
\* plaintext with a null nonce only when it holds none.
C3_EncryptedWhenSessionKey ==
    \A i \in 1..Len(sendLog) :
        LET e == sendLog[i]
        IN  ~e.failed =>
                IF e.hadKey
                THEN e.payload.nonce # Null /\ e.payload.ciphertext # Str(e.message)
                ELSE e.payload.nonce = Null /\ e.payload.ciphertext = Str(e.message)

(***************************************************************************)
(* Properties of the relay fallback                                        *)
(***************************************************************************)
RECURSIVE Unwrap(_)
Unwrap(v) == IF IsObject(v) THEN v ELSE Unwrap(JsonParse(v))

\* v carries the relay envelope that the send logged as e created.
IsEnvelopeOf(v, e) ==
    LET o == Unwrap(v)
    IN  /\ HasField(o, "target") /\ HasField(o, "sender") /\ HasField(o, "content")
        /\ o.target = e.to /\ o.sender = e.from
        /\ o.timestamp = e.timestamp /\ o.content = Str(e.message)

Count(seq, P(_)) == Cardinality({i \in 1..Len(seq) : P(seq[i])})

QueuedAt(n, e) ==
    LET Holds(row) == row.target_id = e.to /\ IsEnvelopeOf(row.packet_data, e)
    IN  Count(relayQueue[n], Holds)

QueuedCount(e) ==
    Cardinality({p \in Nodes \X (1..MaxSends) :
        /\ p[2] <= Len(relayQueue[p[1]])
        /\ relayQueue[p[1]][p[2]].target_id = e.to
        /\ IsEnvelopeOf(relayQueue[p[1]][p[2]].packet_data, e)})

InFlightCount(e) ==
    Cardinality({p \in LinkIds \X (1..MaxSends) :
        /\ e.to \in {p[1][1], p[1][2]}
        /\ p[2] <= Len(Inbound(links, p[1], e.to))
        /\ Inbound(links, p[1], e.to)[p[2]].type = RELAY
        /\ IsEnvelopeOf(Inbound(links, p[1], e.to)[p[2]].payload, e)})

RelayDeliveredCount(e) ==
    LET Is(d) == /\ d.from = e.from /\ d.timestamp = e.timestamp
                 /\ d.message = RelayText(Str(e.message))
    IN  Count(delivered[e.to], Is)

\* C4: a relay envelope queued for X is delivered to X exactly once: it is
\* always in exactly one place (a queue, a stream towards X, or X's
\* application callback), and after the next successful dispatch to X by the
\* node that queued it, it is no longer in that node's queue.
C4_RelayDeliveredExactlyOnce ==
    \A i \in 1..Len(sendLog) :
        LET e == sendLog[i]
        IN  e.failed =>
              /\ QueuedCount(e) + InFlightCount(e) + RelayDeliveredCount(e) = 1
              /\ \A j \in (i + 1)..Len(sendLog) :
                     (sendLog[j].from = e.from /\ sendLog[j].to = e.to /\ ~sendLog[j].failed)
                         => QueuedAt(e.from, e) = 0

\* C5: when A sent m to C while C was down and B was reachable, the send
\* reported relayed = TRUE, and once B has observed C and holds a connection
\* to it with nothing left travelling, C has received m exactly once and B's
\* queue holds nothing for C.
C5_OfflineRelayThroughB ==
    \A i \in 1..Len(sendLog) :
        LET e == sendLog[i]
        IN  (e.from = "A" /\ e.to = "C" /\ ~e.targetUp /\ "B" \in e.reachable) =>
              /\ e.result.relayed
              /\ (/\ peerTable["B"]["C"].present
                  /\ Usable("B", "C")
                  /\ InFlightCount(e) = 0)
                   => /\ RelayDeliveredCount(e) = 1
                      /\ \A k \in 1..Len(relayQueue["B"]) : relayQueue["B"][k].target_id # "C"

\* C6: send reports relayed = TRUE and enqueues exactly one relay envelope
\* for the target when the chat frame did not get onto a connection to the
\* target, and reports relayed = FALSE and enqueues nothing when it did.
C6_SendFallsBackToRelay ==
    \A i \in 1..Len(sendLog) :
        LET e == sendLog[i]
        IN  IF e.onWire
            THEN e.result.relayed = FALSE /\ e.enqueued = <<>>
            ELSE /\ e.result.relayed = TRUE
                 /\ Len(e.enqueued) = 1
                 /\ e.enqueued[1].target_id = e.to
                 /\ e.enqueued[1].sender_id = e.from
                 /\ IsEnvelopeOf(e.enqueued[1].packet_data, e)

\* Both outcomes have happened: one send went out directly, another fell back.
C6_Witness ==
    \E i, j \in 1..Len(sendLog) :
        /\ sendLog[i].onWire /\ ~sendLog[i].result.relayed
        /\ ~sendLog[j].onWire /\ sendLog[j].result.relayed /\ Len(sendLog[j].enqueued) = 1

(***************************************************************************)
(* Properties of the relay queue                                           *)
(***************************************************************************)
\* C7: a fetch for X at time now returns exactly the rows for X that have
\* not expired (expires_at >= now), in the order they were enqueued, and
\* leaves the table holding exactly the non-expired rows of the other
\* targets, unchanged and in order: no row for X and no expired row remains.
C7_FetchReturnsAndPurges ==
    [][lastFetch' # lastFetch =>
        LET X == lastFetch'.target
            now == clock
            before == relayQueue["B"]
            after == relayQueue'["B"]
            Live(r) == r.expires_at >= now
            mine == SelectSeq(before, LAMBDA r : r.target_id = X /\ Live(r))
        IN  /\ lastFetch'.messages =
                   [i \in 1..Len(mine) |-> [mine[i] EXCEPT !.packet_data = JsonParse(@)]]
            /\ \A i \in 1..Len(after) : after[i].target_id # X /\ Live(after[i])
            /\ after = SelectSeq(before, LAMBDA r : r.target_id # X /\ Live(r))]_vars

\* A fetch returned an entry, purged an expired entry of the same target and
\* kept the entry of another target.
C7_Witness ==
    /\ lastFetch.target # Null
    /\ Len(lastFetch.messages) >= 1
    /\ \E i \in 1..Len(lastFetch.before) :
           /\ lastFetch.before[i].target_id = lastFetch.target
           /\ lastFetch.before[i].expires_at < lastFetch.now
    /\ relayQueue["B"] # <<>>
    /\ \A i \in 1..Len(relayQueue["B"]) :
           /\ relayQueue["B"][i].target_id # lastFetch.target
           /\ \E j \in 1..Len(lastFetch.before) : lastFetch.before[j] = relayQueue["B"][i]

(***************************************************************************)
(* Properties of the download engine                                       *)
(***************************************************************************)
TimedOut == dlPc = "rejected" /\ dlResult.kind = "timeout"

\* CHUNK_REQ frames for chunk i that are travelling to the provider.
RequestsInFlight(i) ==
    Cardinality({k \in 1..Len(links[<<"A", "B">>].toS) :
        LET f == links[<<"A", "B">>].toS[k]
        IN  f.type = CHUNK_REQ /\ JsonParse(f.payload).chunk_index = i})

\* C8: when the provider answers every CHUNK_REQ with the chunk of the
\* manifest, the download is not aborted once every request has been
\* answered and every answer has arrived; it resolves with the file of the
\* manifest, and onProgress is called once for each count 1..chunk_count,
\* whatever the order of arrivals and requests.
C8_DownloadCompletes ==
    (fileChunks >= 1 /\ dlHist.damagedServed = 0) =>
        /\ ~(TimedOut /\ ~dlHist.pendingAtAbort)
        /\ \A k \in 1..Len(progress) : progress[k] = k
        /\ dlPc = "resolved" =>
               /\ dlResult.file = FileBytes(fileChunks)
               /\ progress = [k \in 1..fileChunks |-> k]

\* C9: every CHUNK_DATA arrival that fails verification causes exactly one
\* new CHUNK_REQ for its index and is neither stored nor counted, and when
\* every chunk that failed has then arrived intact the download is not
\* aborted but completes with the file of the manifest.
C9_CorruptChunkRerequested ==
    /\ links[<<"A", "B">>].status = "open" =>
           \A i \in 0..(fileChunks - 1) :
               dlHist.served[i] + RequestsInFlight(i) =
                   (IF dlPc # "idle" /\ i <= nextReq THEN 1 ELSE 0) + dlHist.failedVerify[i]
    /\ \A i \in 0..(fileChunks - 1) : chunkBuffers[i] \in {NullBuf, Chunk(i)}
    /\ downloaded = Cardinality({i \in 0..(fileChunks - 1) : chunkBuffers[i] # NullBuf})
    /\ Len(progress) = downloaded
    /\ ~(/\ TimedOut /\ ~dlHist.pendingAtAbort
         /\ \E i \in 0..(fileChunks - 1) : dlHist.failedVerify[i] > 0
         /\ \A i \in 0..(fileChunks - 1) :
                dlHist.failedVerify[i] > 0 => dlHist.intactAfterFailure[i])
    /\ dlPc = "resolved" => dlResult.file = FileBytes(fileChunks)

\* C10 as stated: the download is aborted by its timer only when 120 s have
\* passed without a CHUNK_DATA arrival, counted from the last arrival; the
\* handler is then deregistered and the caller gets an error.
C10_AbortOnlyAfterInactivity ==
    TimedOut =>
        /\ dlHist.abortAt - dlHist.lastArrivalAtAbort >= DL_TIMEOUT_MS
        /\ ~chunkHandlers["A"]
        /\ dlResult.kind = "timeout"

\* C10 amended: the timer is armed once, when the handler is registered, and
\* is never re-armed; the download is aborted by it only when 120 s have
\* passed since then, whatever has arrived meanwhile; the handler is then
\* deregistered and the caller gets an error.
C10_AbortAfterFixedDeadline ==
    /\ timeoutAt # 0 => (timeoutAt = dlHist.armedAt + DL_TIMEOUT_MS /\ chunkHandlers["A"])
    /\ TimedOut =>
           /\ dlHist.abortAt - dlHist.armedAt >= DL_TIMEOUT_MS
           /\ ~chunkHandlers["A"]
           /\ timeoutAt = 0
           /\ dlResult.kind = "timeout"

\* The timer aborted a download less than 120 s after a chunk was stored.
C10_Witness ==
    /\ TimedOut
    /\ downloaded >= 1
    /\ dlHist.armedAt < dlHist.lastArrivalAtAbort
    /\ dlHist.lastArrivalAtAbort < dlHist.abortAt
    /\ dlHist.abortAt - dlHist.lastArrivalAtAbort < DL_TIMEOUT_MS

(***************************************************************************)
(* Properties of the trust store                                           *)
(***************************************************************************)
\* C11: checkTrust on a node without a record creates the record with the keys
\* shown, trusted, and returns "new"/true; on a record whose two keys match it
\* changes nothing and returns "known" with the record's trusted flag; on a
\* record one of whose keys differs it clears the flag and returns
\* "mismatch"/false.
C11_CheckTrustContract ==
    lastOp.op = "checkTrust" =>
        LET before == lastOp.before
            after == wot[lastOp.node][lastOp.nodeId]
            same == before.signingPub = lastOp.signingPub /\ before.dhPub = lastOp.dhPub
        IN  /\ ~before.present =>
                   /\ lastOp.status = "new" /\ lastOp.trusted
                   /\ after = [present |-> TRUE, signingPub |-> lastOp.signingPub,
                               dhPub |-> lastOp.dhPub, trusted |-> TRUE]
            /\ (before.present /\ same) =>
                   /\ lastOp.status = "known" /\ lastOp.trusted = before.trusted
                   /\ after = before
            /\ (before.present /\ ~same) =>
                   /\ lastOp.status = "mismatch" /\ ~lastOp.trusted
                   /\ after.present /\ ~after.trusted

\* A trusted record was shown its signing key with another DH key.
C11_Witness ==
    /\ lastOp.op = "checkTrust"
    /\ lastOp.before.present /\ lastOp.before.trusted
    /\ lastOp.before.signingPub = lastOp.signingPub
    /\ lastOp.before.dhPub # lastOp.dhPub
    /\ lastOp.status = "mismatch"
    /\ ~wot[lastOp.node][lastOp.nodeId].trusted

\* C12: a checkTrust call never sets a cleared trusted flag again, whether the
\* keys it is shown match or not, and never changes the keys a record pins;
\* only trust(nodeId) restores the flag.
C12_ClearedFlagSticksAndPinsStay ==
    [][\A n \in Nodes : \A m \in Nodes :
           (wot[n][m].present /\ lastOp'.op = "checkTrust") =>
               /\ wot'[n][m].present
               /\ wot'[n][m].signingPub = wot[n][m].signingPub
               /\ wot'[n][m].dhPub = wot[n][m].dhPub
               /\ ~wot[n][m].trusted => ~wot'[n][m].trusted]_vars

\* A record whose flag was cleared was shown its pinned keys again and stayed
\* untrusted.
C12_Witness ==
    /\ lastOp.op = "checkTrust"
    /\ lastOp.status = "known"
    /\ lastOp.before.present /\ ~lastOp.before.trusted
    /\ ~lastOp.trusted
    /\ ~wot[lastOp.node][lastOp.nodeId].trusted

(***************************************************************************)
(* Properties of the handshake under pinned keys                           *)
(***************************************************************************)
\* The record of node n refuses the keys a handshake frame shows: it is
\* untrusted, or one of its pinned keys differs.
Refuses(n, data) ==
    LET rec == wot[n][data.nodeId]
    IN  rec.present /\ (~rec.trusted \/ rec.signingPub # data.signingPub
                                     \/ rec.dhPub # data.dhPub)

\* The stream node n writes to on link l.
Outbound(lk, l, n) == IF n = l[2] THEN lk[l].toC ELSE lk[l].toS

\* C13: when a node handles a HANDSHAKE_INIT that its trust store refuses, it
\* writes nothing back (no HANDSHAKE_RESP, no queued relay frame), its peer
\* table keeps the session keys it had, its relay queue keeps its rows and the
\* connection stays open.
C13_UntrustedInitDropped ==
    [][\A n \in Nodes : \A l \in LinkIds :
           (/\ CanRecv(n, l)
            /\ Parsed(n, l).ok
            /\ Parsed(n, l).type = MSG
            /\ IsHandshake(Data(n, l), "HANDSHAKE_INIT")
            /\ Refuses(n, Data(n, l))
            /\ Inbound(links', l, n) = Tail(Inbound(links, l, n)))
           => /\ Outbound(links', l, n) = Outbound(links, l, n)
              /\ peerTable'[n] = peerTable[n]
              /\ relayQueue'[n] = relayQueue[n]
              /\ links'[l].status = "open"
              /\ connections'[n][Data(n, l).nodeId] = l]_vars

\* B has consumed A's HANDSHAKE_INIT while refusing A, with a message for A in
\* its queue: nothing came back to A, B holds no key for A and the row is kept.
C13_Witness ==
    /\ pendingHandshakes["A"]["B"] # NoEph
    /\ wot["B"]["A"].present /\ ~wot["B"]["A"].trusted
    /\ links[<<"A", "B">>] = [status |-> "open", toS |-> <<>>, toC |-> <<>>]
    /\ pendingHandshakeResp["A"] = NoResp
    /\ peerTable["B"]["A"].sessionKey = NoKey
    /\ \E i \in 1..Len(relayQueue["B"]) : relayQueue["B"][i].target_id = "A"

\* C14: an initiator whose trust store pins other keys for the responder than
\* the responder shows installs no session key for it.
C14_MismatchedRespInstallsNoKey ==
    \A n \in Nodes : \A m \in Nodes :
        (/\ wot[n][m].present
         /\ (\/ wot[n][m].signingPub # Identity(m).signing.publicKey
             \/ wot[n][m].dhPub # Identity(m).dh.publicKey))
        => peerTable[n][m].sessionKey = NoKey

(***************************************************************************)
(* Properties of the peer table                                            *)
(***************************************************************************)
\* C15: no entry getActivePeers returns has a lastSeen older than the time of
\* the call minus PEER_TIMEOUT_MS.
C15_NoStaleActivePeer ==
    lastOp.op = "getActivePeers" =>
        \A id \in DOMAIN lastOp.active :
            ~(lastOp.active[id].lastSeen < lastOp.now - PEER_TIMEOUT_MS)

\* getActivePeers was called on a table with a stale entry and a live one:
\* it returned the live one only.
C15_Witness ==
    /\ lastOp.op = "getActivePeers"
    /\ \E id \in Nodes :
           /\ lastOp.before[id].present
           /\ lastOp.before[id].lastSeen < lastOp.now - PEER_TIMEOUT_MS
           /\ id \notin DOMAIN lastOp.active
    /\ DOMAIN lastOp.active # {}

\* C16: upsert of a peer that has an entry keeps the entry's reputation and
\* session key; upsert of a peer without an entry creates it with reputation
\* 100 and no session key; the entries of all other peers stay as they were.
C16_UpsertFrame ==
    lastOp.op = "upsert" =>
        LET before == lastOp.before
            after == peerTable[lastOp.node]
            id == lastOp.nodeId
        IN  /\ after[id].present
            /\ before[id].present =>
                   /\ after[id].reputation = before[id].reputation
                   /\ after[id].sessionKey = before[id].sessionKey
            /\ ~before[id].present =>
                   /\ after[id].reputation = InitialReputation
                   /\ after[id].sessionKey = NoKey
            /\ \A other \in Nodes \ {id} : after[other] = before[other]

\* A penalised peer holding a session key was upserted while another peer had
\* an entry too.
C16_Witness ==
    /\ lastOp.op = "upsert"
    /\ lastOp.before[lastOp.nodeId].present
    /\ lastOp.before[lastOp.nodeId].reputation < InitialReputation
    /\ lastOp.before[lastOp.nodeId].sessionKey # NoKey
    /\ lastOp.before[lastOp.nodeId].lastSeen < lastOp.now
    /\ \E other \in Nodes \ {lastOp.nodeId} : lastOp.before[other].present

\* C17: pruneDeadPeers deletes the entries with now - lastSeen > PEER_TIMEOUT_MS
\* and no other, and returns the ids of the deleted entries; an entry that
\* appears for a peer that had none has no session key.
C17_PruneExactAndKeyDiscarded ==
    /\ [](lastOp.op = "pruneDeadPeers" =>
            LET before == lastOp.before
                after == peerTable[lastOp.node]
                dead == {id \in Nodes : before[id].present
                                        /\ lastOp.now - before[id].lastSeen > PEER_TIMEOUT_MS}
            IN  /\ lastOp.removed = dead
                /\ \A id \in dead : ~after[id].present /\ after[id].sessionKey = NoKey
                /\ \A id \in Nodes \ dead : after[id] = before[id])
    /\ [][\A n \in Nodes : \A id \in Nodes :
              (~peerTable[n][id].present /\ peerTable'[n][id].present)
              => peerTable'[n][id].sessionKey = NoKey]_vars

\* pruneDeadPeers evicted a peer that held a session key and kept a peer seen
\* exactly PEER_TIMEOUT_MS ago.
C17_Witness ==
    /\ lastOp.op = "pruneDeadPeers"
    /\ \E id \in lastOp.removed : lastOp.before[id].sessionKey # NoKey
    /\ \E id \in Nodes :
           /\ peerTable[lastOp.node][id].present
           /\ lastOp.now - peerTable[lastOp.node][id].lastSeen = PEER_TIMEOUT_MS

(***************************************************************************)
(* Properties of peer discovery                                            *)
(***************************************************************************)
\* C18: while a node holds an entry for a peer, onPeerDiscovered has been
\* called exactly once for that peer since the entry appeared, however many
\* HELLO datagrams and HELLO frames announced it; without an entry no call is
\* counted, so that a call follows only on the peer's return after eviction.
C18_DiscoveredOncePerLifetime ==
    \A n \in Nodes : \A m \in Nodes :
        fired[n][m] = IF peerTable[n][m].present THEN 1 ELSE 0

(***************************************************************************)
(* Properties of the packet codec                                          *)
(***************************************************************************)
\* C19: parsing a built frame under the key it was built with returns a packet
\* whose type, nodeId and payload are those the frame was built from.
C19_PacketRoundTrip ==
    (lastOp.op = "parsePacket" /\ lastOp.buf = lastOp.built /\ lastOp.parseKey = lastOp.key) =>
        /\ lastOp.packet.ok
        /\ lastOp.packet.type = lastOp.type
        /\ lastOp.packet.nodeId = lastOp.nodeId
        /\ lastOp.packet.payload = lastOp.payload

\* A frame with a payload, built under a session key, was parsed under it.
C19_Witness ==
    /\ lastOp.op = "parsePacket"
    /\ lastOp.parseKey = lastOp.key
    /\ Len(lastOp.key) = 64
    /\ lastOp.type # HELLO
    /\ lastOp.payload # <<>>
    /\ lastOp.packet.ok
    /\ lastOp.packet.payload = lastOp.payload

\* C20: parsing a built frame of a type other than HELLO under a key other
\* than the one it was built with returns no packet.
C20_WrongKeyRejected ==
    (/\ lastOp.op = "parsePacket" /\ lastOp.buf = lastOp.built
     /\ lastOp.type # HELLO /\ lastOp.parseKey # lastOp.key) =>
        ~lastOp.packet.ok

\* A MSG frame built under one session key was parsed under another.
C20_Witness ==
    /\ lastOp.op = "parsePacket"
    /\ lastOp.type = MSG
    /\ Len(lastOp.key) = 64 /\ Len(lastOp.parseKey) = 64
    /\ lastOp.parseKey # lastOp.key
    /\ ~lastOp.packet.ok

C22_UnverifiedHelloKeepsSigningKey ==
    [][\A n \in Nodes : \A l \in LinkIds :
           (/\ CanRecv(n, l)
            /\ Arrived(n, l).type = HELLO
            /\ Arrived(n, l).mac # hmac(Body(Arrived(n, l)), _getHmacKey(n, Arrived(n, l)))
            /\ Inbound(links', l, n) = Tail(Inbound(links, l, n))
            /\ peerTable[n][Data(n, l).nodeId].present)
           => peerTable'[n][Data(n, l).nodeId].signingPublicKey
                  = peerTable[n][Data(n, l).nodeId].signingPublicKey]_vars

(***************************************************************************)
(* Properties of frame handling                                            *)
(***************************************************************************)
\* C23: when a node handles a chat frame whose signature was not made by the
\* signing key it has recorded for the sender, the message is handed to
\* onMessageReceived with a mark on its text that an authentic message does
\* not carry, and the connection stays open.
C23_TamperedChatDeliveredTainted ==
    [][\A n \in Nodes : \A l \in LinkIds :
           (/\ CanRecv(n, l)
            /\ Parsed(n, l).ok
            /\ Parsed(n, l).type = MSG
            /\ HasField(Data(n, l), "signature")
            /\ peerTable[n][Parsed(n, l).nodeId].present
            /\ Data(n, l).signature.by
                   # peerTable[n][Parsed(n, l).nodeId].signingPublicKey.pub
            /\ Inbound(links', l, n) = Tail(Inbound(links, l, n)))
           => /\ links'[l].status = "open"
              /\ Len(delivered'[n]) = Len(delivered[n]) + 1
              /\ delivered'[n][Len(delivered'[n])].message.prefix # ChatText(NoText).prefix]_vars

(***************************************************************************)
(* Properties of the node identity                                         *)
(***************************************************************************)
\* C24: the identity put in use by loadOrCreateIdentity satisfies
\* NodeId = hash(signing public key), whether it was generated or read from
\* the keys file, whatever the file holds.
C24_NodeIdIsHashOfSigningKey ==
    lastOp.op = "loadOrCreateIdentity"
        => lastOp.identity.nodeId = Sha256(lastOp.identity.signing.publicKey)

(***************************************************************************)
(* Properties of the chunker                                               *)
(***************************************************************************)
\* C25: for every file F, of a size that is a multiple of the chunk size or
\* not, assembling the chunks read with readChunk for every index of
\* createManifest(F) yields an output equal to F whose hash is the manifest's
\* whole-file hash; when the whole-file hash of the manifest is another one,
\* assembly fails and the output file does not exist afterwards.
C25_AssembleChunksRoundTrip ==
    lastOp.op = "assembleFile"
        => /\ lastOp.made.chunk_count * CHUNK_SIZE >= Len(lastOp.F)
           /\ (lastOp.made.chunk_count - 1) * CHUNK_SIZE < Len(lastOp.F) \/ Len(lastOp.F) = 0
           /\ lastOp.manifest.file_hash = Sha256(lastOp.F)
                  => /\ lastOp.kind = "file"
                     /\ lastOp.out = [exists |-> TRUE, bytes |-> lastOp.F]
                     /\ Sha256(lastOp.out.bytes) = lastOp.made.file_hash
           /\ lastOp.manifest.file_hash # Sha256(lastOp.F)
                  => /\ lastOp.kind = "error"
                     /\ ~lastOp.out.exists

C25_Witness ==
    /\ lastOp.op = "assembleFile"
    /\ Len(lastOp.F) % CHUNK_SIZE # 0
    /\ lastOp.made.chunk_count > 1
    /\ lastOp.kind = "file"

(***************************************************************************)
(* Properties of sendTo                                                    *)
(***************************************************************************)
\* C26: when the messenger sends a chat frame with sendTo and the write
\* succeeds, then either an open socket was registered for the peer, no
\* connection is opened and the frame is appended to what that socket
\* carries; or exactly one connection, to the peer, is opened and registered,
\* and it carries one RELAY frame for every non-expired relay-queue entry
\* addressed to the peer, in queue order, followed by the caller's frame,
\* and these entries have left the queue.
C26_SendToReusesOrOpensAndDrains ==
    [][Len(sendLog') = Len(sendLog) + 1 /\ ~sendLog'[Len(sendLog')].failed
        => LET e == sendLog'[Len(sendLog')]
               n == e.from
               nodeId == e.to
               frame == buildPacket(MSG, n, JsonStringify(e.payload), PUBLIC_HMAC_KEY)
               Opened == {l \in LinkIds : links[l].status # "open" /\ links'[l].status = "open"}
               Live(r) == r.target_id = nodeId /\ ~(r.expires_at < clock)
               pending == SelectSeq(relayQueue[n], Live)
               sock == connections[n][nodeId]
           IN  IF Usable(n, nodeId)
               THEN /\ Opened = {}
                    /\ connections'[n][nodeId] = sock
                    /\ Outbound(links', sock, n) = Append(Outbound(links, sock, n), frame)
                    /\ relayQueue' = relayQueue
               ELSE /\ Opened = {<<n, nodeId>>}
                    /\ connections'[n][nodeId] = <<n, nodeId>>
                    /\ Outbound(links', <<n, nodeId>>, n)
                           = [i \in 1..Len(pending) |->
                                 buildPacket(RELAY, n, pending[i].packet_data, PUBLIC_HMAC_KEY)]
                             \o <<frame>>
                    /\ SelectSeq(relayQueue'[n], Live) = <<>>]_vars

C26_Witness ==
    /\ links[<<"A", "C">>].status = "open"
    /\ Len(links[<<"A", "C">>].toS) = 2
    /\ links[<<"A", "C">>].toS[1].type = RELAY
    /\ links[<<"A", "C">>].toS[2].type = MSG
    /\ relayQueue["A"] = <<>>
    /\ Len(sendLog) = 2 /\ ~sendLog[2].failed

C28_HandlerRegisteredBeforeFirstRequest ==
    /\ dlPc = "requesting" => chunkHandlers["A"]
    /\ dlHist.unhandled = 0

C30_ResponderHoldsSessionKey ==
    [][LET l == <<"A", "B">>
           data == Data("B", l)
       IN  (/\ CanRecv("B", l)
            /\ Parsed("B", l).ok
            /\ Parsed("B", l).type = MSG
            /\ IsHandshake(data, "HANDSHAKE_INIT")
            /\ Len(Outbound(links', l, "B")) = Len(Outbound(links, l, "B")) + 1)
           => /\ peerTable'["B"][data.nodeId].present
              /\ peerTable'["B"][data.nodeId].sessionKey # NoKey
              /\ peerTable'["B"][data.nodeId].sessionKey
                     = respondHandshake(data, Identity("B"), EphId(ephCounter + 1),
                                        clock).sessionKey]_vars

(***************************************************************************)
(* Properties of the initiator's handshake state                           *)
(***************************************************************************)
\* C31: while no attempt of A towards B is waiting for its response (every
\* polling promise has returned, by completion or by its 5 s timer), A keeps
\* no pending ephemeral key for B and no pending response of B.
C31_TimedOutHandshakeLeavesNothing ==
    pollers["A"]["B"] = 0
        => /\ pendingHandshakes["A"]["B"] = NoEph
           /\ pendingHandshakeResp["A"].nodeId # "B"

\* C32: when one of A and B has evicted its peer entry for the other while
\* the other still holds a session key, the HANDSHAKE_INIT and HANDSHAKE_RESP
\* frames of a handshake between them pass the MAC check of their receiver.
C32_HandshakeAfterEvictionAccepted ==
    \A n \in {"A", "B"} :
        LET l == <<"A", "B">>
            Evicted(x, y) == ~peerTable[x][y].present /\ peerTable[y][x].sessionKey # NoKey
        IN  (/\ CanRecv(n, l)
             /\ Evicted("A", "B") \/ Evicted("B", "A")
             /\ \/ IsHandshake(JsonParse(Arrived(n, l).payload), "HANDSHAKE_INIT")
                \/ IsHandshake(JsonParse(Arrived(n, l).payload), "HANDSHAKE_RESP"))
            => Parsed(n, l).ok

(***************************************************************************)
(* Properties of the HELLO exchange on a session                           *)
(***************************************************************************)
\* C33: a node that takes a HELLO frame of its peer on a connection between
\* A and B writes exactly one HELLO of its own when it had no entry for the
\* sender and none when it had one; and when that leaves nothing travelling
\* on the connection, each side holds the other in its peer table.
C33_HelloExchangeEndsSymmetric ==
    [][\A l \in {<<"A", "B">>, <<"B", "A">>} : \A n \in {"A", "B"} :
           LET s == IF n = "A" THEN "B" ELSE "A"
           IN  (/\ CanRecv(n, l)
                /\ Parsed(n, l).ok
                /\ Parsed(n, l).type = HELLO
                /\ Data(n, l).nodeId = s
                /\ fired'[n][s] = fired[n][s] + 1
                /\ Inbound(links', l, n) = Tail(Inbound(links, l, n)))
               => /\ Outbound(links', l, n) =
                         IF peerTable[n][s].present THEN Outbound(links, l, n)
                         ELSE Append(Outbound(links, l, n), buildHelloPacket(Identity(n), clock))
                  /\ (Inbound(links', l, n) = <<>> /\ Outbound(links', l, n) = <<>>)
                         => peerTable'[n][s].present /\ peerTable'[s][n].present]_vars

(***************************************************************************)
(* Properties of file transfer between peers that share a session key      *)
(***************************************************************************)
\* C34: while A and B hold the same session key for each other, every
\* CHUNK_REQ and CHUNK_DATA frame one of them writes to the other carries a
\* MAC under the key its receiver selects for the sender's frames.
C34_TransferFramesUnderSelectedKey ==
    [][\A m \in {"A", "B"} :
           LET l == <<"A", "B">>
               n == IF m = "A" THEN "B" ELSE "A"
               before == Inbound(links, l, m)
               after == Inbound(links', l, m)
           IN  (/\ peerTable[n][m].sessionKey # NoKey
                /\ peerTable[n][m].sessionKey = peerTable[m][n].sessionKey
                /\ Len(after) = Len(before) + 1
                /\ after[Len(after)].type \in {CHUNK_REQ, CHUNK_DATA})
               => parsePacket(after[Len(after)], peerTable[m][n].sessionKey).ok]_vars

(***************************************************************************)
(* Properties of the connection map                                        *)
(***************************************************************************)
\* C35: no node's nodeId -> socket map has an entry whose value is a socket
\* that has closed, whatever NodeIds the frames received on it carried.
C35_ClosedSocketNotRegistered ==
    \A l \in LinkIds : \A n \in Nodes : \A id \in Nodes :
        links[l].status = "closed" => connections[n][id] # l

\* C36: when the 5 s timer of _connect fires for a socket whose connection is
\* established, the socket stays open and registered, and it is the socket a
\* later sendTo to that peer uses.
C36_ConnectTimerSparesEstablished ==
    [][\A l \in LinkIds :
           ConnectTimeout(l)
               => /\ links'[l].status = "open"
                  /\ connections' = connections
                  /\ connections[l[1]][l[2]] = l => Usable(l[1], l[2])']_vars

\* C37: while A polls for the responses of two peers, a HANDSHAKE_RESP that
\* arrives at A never replaces the response of the other peer before that
\* peer's poller has taken it, so both handshakes end with a session key.
C37_ConcurrentHandshakesKeepResponses ==
    [][\A l \in LinkIds :
           RecvHandshakeResp("A", l)
               => LET held == pendingHandshakeResp["A"].nodeId
                  IN  \/ held = Null
                      \/ held = pendingHandshakeResp'["A"].nodeId
                      \/ pollers["A"][held] = 0]_vars

\* C38: when X takes from a socket a RELAY frame that carries an envelope
\* queued by sendRelay for target X with sender S and content m, the decoded
\* payload is an object whose target is X, and X's onMessageReceived is
\* called once with sender S and the content m.
C38_RelayEnvelopeRoundTrip ==
    [][\A l \in LinkIds, n \in Nodes, i \in 1..Len(sendLog) :
           LET e == sendLog[i]
           IN  (/\ CanRecv(n, l)
                /\ Arrived(n, l).type = RELAY
                /\ e.failed /\ e.to = n
                /\ IsEnvelopeOf(Arrived(n, l).payload, e)
                /\ links'[l].status = "open"
                /\ Inbound(links', l, n) = Tail(Inbound(links, l, n)))
                   => /\ Parsed(n, l).ok
                      /\ HasField(Data(n, l), "target")
                      /\ Data(n, l).target = n
                      /\ delivered'[n] = Append(delivered[n],
                             [from |-> e.from, message |-> RelayText(Str(e.message)),
                              timestamp |-> e.timestamp, encrypted |-> FALSE])]_vars

\* C39: downloadFile terminates for every manifest.  For a manifest with
\* chunk_count = 0 the call is resolved as soon as it has started, without
\* waiting for a CHUNK_DATA frame; and once the promise is settled the timer
\* is disarmed and no handler for the fileId is registered, so it is settled
\* only once.
C39_DownloadFileTerminates ==
    /\ (createManifest(fileChunks).chunk_count = 0 /\ dlPc # "idle")
           => /\ dlPc = "resolved"
              /\ dlResult.kind = "file"
    /\ dlPc \in {"resolved", "rejected"}
           => /\ timeoutAt = 0
              /\ \A n \in Nodes : ~chunkHandlers[n]

\* C40: no node has an entry for its own NodeId in its peer table, whatever
\* HELLO frames it has handled, those whose header NodeId and payload nodeId
\* differ included.
C40_LocalNodeIdNeverInPeerTable ==
    \A n \in Nodes : ~ptGet(peerTable[n], n).present

====
